---- MODULE Spec2Model ----
(***************************************************************************)
(* The context-and-response caching subsystem of the backend:             *)
(*   - SQLiteRAG            (backend/sqlite_rag.py)          Context Store *)
(*   - ConversationMemory   (backend/conversation_memory.py) Conversations *)
(*   - SmartResponseCache   (backend/response_cache.py)      Response Cache*)
(* Each store is a state machine of its own; SpecRag, SpecConv and         *)
(* SpecCache run one store each and leave the other stores' state idle.    *)
(*   - MemoryOnlyContext    (backend/memory_only_context.py) Sessions      *)
(* The specifications named ...Conc run the calls of several tasks step by *)
(* step.                                                                   *)
(***************************************************************************)
EXTENDS Integers, Sequences, FiniteSets, TLC

VARIABLES
    now,            \* the reading of datetime.now() / CURRENT_TIMESTAMP
    last,           \* the last completed call: its name, arguments and result
    contexts,       \* SQLiteRAG: rows of table contexts
    ctxNextId,      \* SQLiteRAG: next AUTOINCREMENT id of table contexts
    conversations,  \* ConversationMemory: rows of table conversations
    messages,       \* ConversationMemory: rows of table messages
    msgNextId,      \* ConversationMemory: next AUTOINCREMENT id of table messages
    cache,          \* SmartResponseCache.cache, in dict insertion order
    tasks,          \* per request-handling task: where it is in its call
    session_contexts, \* MemoryOnlyContext.session_contexts
    lock            \* MemoryOnlyContext.lock: the task that holds it

vars == <<now, last, contexts, ctxNextId, conversations, messages,
          msgNextId, cache, tasks, session_contexts, lock>>

ragVars   == <<contexts, ctxNextId>>
convVars  == <<conversations, messages, msgNextId>>
cacheVars == <<cache>>
taskVars  == <<tasks>>
memVars   == <<session_contexts, lock>>

\* ------------------------------------------------------------------ bounds
RagMaxTime == 1     \* SpecRag: clock readings 0..RagMaxTime
MaxCtxId == 3       \* SpecRag: at most this many context rows are ever inserted
ConvMaxTime == 1    \* SpecConv: clock readings 0..ConvMaxTime
ConvConcMaxTime == 2   \* SpecConvConc: clock readings 0..ConvConcMaxTime
MaxMsgId == 1       \* SpecConv: at most this many message rows are ever inserted
MaxHistMsgId == 2   \* SpecHist: at most this many message rows are ever inserted
MaxLimit == 2       \* SpecHist, SpecRetrieve: max_messages, n_results <= MaxLimit
CacheMaxTime == 2   \* SpecCache: clock readings 0..CacheMaxTime
MemMaxTime == 2     \* SpecMem: clock readings 0..MemMaxTime
MaxWords == 2       \* SpecClassify: prompts of up to MaxWords words
MaxFpLen == 1       \* SpecSim: command and package lists of up to MaxFpLen items

\* ---------------------------------------------------------------- helpers
Min(a, b) == IF a < b THEN a ELSE b

NoCall == [op |-> "none"]

\* The clock advances between calls; two calls may read the same time.
Tick(MaxTime) ==
    /\ now < MaxTime
    /\ now' = now + 1
    /\ UNCHANGED <<last, ragVars, convVars, cacheVars, taskVars, memVars>>

\* ORDER BY <timestamp column> ASC LIMIT n: the n oldest rows; rows with equal
\* timestamps come in an order SQL leaves open.
OldestSets(rows, n, ts) ==
    { S \in SUBSET rows :
        /\ Cardinality(S) = Min(n, Cardinality(rows))
        /\ \A x \in S, y \in rows \ S : ts[x] <= ts[y] }


\* ======================================================================
\* Context Store: SQLiteRAG (backend/sqlite_rag.py)
\* ======================================================================
max_total_contexts == 2      \* self.max_total_contexts, scaled down from 200
max_contexts_per_user == 1   \* self.max_contexts_per_user, scaled down from 20
max_context_age == 0         \* self.max_context_age_days, in clock ticks

Owners == {"A", "B"}
NoId == 0                    \* None: store_context returned no id

\* A payload (context_data) is a dict in insertion order: a sequence of
\* <<key, value>> with distinct keys; keys are numbered in lexicographic
\* order (1 = "a", 2 = "b"); a value is an integer or a nested dict.
IntV(n) == <<"int", n>>
DictV(p) == <<"dict", p>>
PayloadAB == << <<1, IntV(1)>>, <<2, IntV(1)>> >>       \* {"a": 1, "b": 1}
PayloadBA == << <<2, IntV(1)>>, <<1, IntV(1)>> >>       \* {"b": 1, "a": 1}
Payloads ==
    { << <<1, IntV(1)>> >>,                              \* {"a": 1}
      << <<2, IntV(1)>> >>,                              \* {"b": 1}
      PayloadAB,
      << <<1, DictV(PayloadAB)>> >>,                     \* {"a": {"a": 1, "b": 1}}
      << <<1, DictV(PayloadBA)>> >> }                    \* {"a": {"b": 1, "a": 1}}

\* Insert the pair kv into a sequence already sorted by key.
RECURSIVE InsertByKey(_, _)
InsertByKey(kv, sorted) ==
    IF sorted = <<>> THEN <<kv>>
    ELSE IF kv[1] <= Head(sorted)[1] THEN <<kv>> \o sorted
    ELSE <<Head(sorted)>> \o InsertByKey(kv, Tail(sorted))

\* A json.dumps that sorts the keys of the outermost dict only.
RECURSIVE json_dumps_sort_top_level(_)
json_dumps_sort_top_level(p) ==
    IF p = <<>> THEN <<>>
    ELSE InsertByKey(Head(p), json_dumps_sort_top_level(Tail(p)))

\* json.dumps(context_data, sort_keys=True): the text of the dict with the
\* keys sorted at every nesting level.
RECURSIVE json_dumps_sort_keys(_)
json_dumps_sort_keys(p) ==
    IF p = <<>> THEN <<>>
    ELSE LET kv == Head(p)
             v  == IF kv[2][1] = "dict"
                   THEN DictV(json_dumps_sort_keys(kv[2][2]))
                   ELSE kv[2]
         IN  InsertByKey(<<kv[1], v>>, json_dumps_sort_keys(Tail(p)))

\* hashlib.md5(content).hexdigest(): a digest that identifies the text
\* (collisions of md5 are not modelled).
_generate_content_hash(content) == <<"md5", content>>

OwnerRows(tbl, access_code) == { r \in tbl : r.access_code = access_code }
RowTimestamp(r) == r.timestamp

\* _enforce_memory_limits(access_code): the tables it can leave.
\* Pass 1 (total limit), then pass 2 (this user's limit) on pass 1's result.
EnforceTotal(tbl) ==
    LET total_count == Cardinality(tbl)
    IN  IF total_count > max_total_contexts
        THEN { tbl \ S : S \in OldestSets(tbl, total_count - max_total_contexts,
                                          [r \in tbl |-> RowTimestamp(r)]) }
        ELSE { tbl }

EnforceUser(tbl, access_code) ==
    LET mine       == OwnerRows(tbl, access_code)
        user_count == Cardinality(mine)
    IN  IF user_count > max_contexts_per_user
        THEN { tbl \ S : S \in OldestSets(mine, user_count - max_contexts_per_user,
                                          [r \in mine |-> RowTimestamp(r)]) }
        ELSE { tbl }

rag_enforce_memory_limits(tbl, access_code) ==
    UNION { EnforceUser(t1, access_code) : t1 \in EnforceTotal(tbl) }

\* A store_context that skips the duplicate check.
ExistingRows_unchecked(tbl, content_hash) == {}

\* SELECT id FROM contexts WHERE content_hash = ?
ExistingRows(tbl, content_hash) == { r \in tbl : r.content_hash = content_hash }

\* The record of a completed store_context call. `again` says that the call
\* completed just before it was store_context with the same access_code and
\* the same canonical content; ret1 and cnt1 are then that call's result and
\* the owner's row count after it.
StoreCall(access_code, content, ret, tbl) ==
    LET again == /\ last.op = "store"
                 /\ last.access_code = access_code
                 /\ last.content = content
    IN  [ op |-> "store", access_code |-> access_code, content |-> content,
          ret |-> ret, cnt |-> Cardinality(OwnerRows(tbl, access_code)),
          again |-> again,
          ret1 |-> IF again THEN last.ret ELSE NoId,
          cnt1 |-> IF again THEN last.cnt ELSE 0 ]

\* store_context, duplicate found: bump the row's timestamp, return its id.
store_context_existing(access_code, context_data) ==
    LET content      == json_dumps_sort_keys(context_data)
        content_hash == _generate_content_hash(content)
        existing     == ExistingRows(contexts, content_hash)
    IN  /\ existing # {}
        /\ contexts' = { IF r \in existing THEN [r EXCEPT !.timestamp = now] ELSE r
                         : r \in contexts }
        /\ last' = StoreCall(access_code, content,
                             (CHOOSE r \in existing : TRUE).id, contexts')
        /\ UNCHANGED <<now, ctxNextId, convVars, cacheVars, taskVars, memVars>>

\* store_context, no duplicate: enforce the limits, then insert the new row.
store_context_insert(access_code, context_data) ==
    LET content      == json_dumps_sort_keys(context_data)
        content_hash == _generate_content_hash(content)
    IN  /\ ExistingRows(contexts, content_hash) = {}
        /\ ctxNextId <= MaxCtxId
        /\ \E tbl \in rag_enforce_memory_limits(contexts, access_code) :
              /\ contexts' = tbl \cup
                     { [ id |-> ctxNextId, access_code |-> access_code,
                         content_hash |-> content_hash, timestamp |-> now ] }
              /\ last' = StoreCall(access_code, content, ctxNextId, contexts')
        /\ ctxNextId' = ctxNextId + 1
        /\ UNCHANGED <<now, convVars, cacheVars, taskVars, memVars>>

store_context(access_code, context_data) ==
    \/ store_context_existing(access_code, context_data)
    \/ store_context_insert(access_code, context_data)

\* A sweep whose comparison is inverted: it deletes the rows younger than
\* the cutoff.
rag_cleanup_old_data_inverted ==
    /\ contexts' = { r \in contexts : ~(r.timestamp > now - max_context_age) }
    /\ last' = [ op |-> "sweep",
                 deleted_count |-> Cardinality(contexts) - Cardinality(contexts') ]
    /\ UNCHANGED <<now, ctxNextId, convVars, cacheVars, taskVars, memVars>>

\* _cleanup_old_data(): DELETE FROM contexts WHERE timestamp < cutoff_date
rag_cleanup_old_data ==
    /\ contexts' = { r \in contexts : ~(r.timestamp < now - max_context_age) }
    /\ last' = [ op |-> "sweep",
                 deleted_count |-> Cardinality(contexts) - Cardinality(contexts') ]
    /\ UNCHANGED <<now, ctxNextId, convVars, cacheVars, taskVars, memVars>>

\* clear_user_context(access_code)
clear_user_context(access_code) ==
    /\ contexts' = contexts \ OwnerRows(contexts, access_code)
    /\ last' = [ op |-> "clear" ]
    /\ UNCHANGED <<now, ctxNextId, convVars, cacheVars, taskVars, memVars>>

IdleRag   == contexts = {} /\ ctxNextId = 1
IdleConv  == conversations = <<>> /\ messages = {} /\ msgNextId = 1
IdleCache == cache = <<>>

\* The request-handling tasks; a task that is in no call is Idle.
Tasks == {"t1", "t2"}
Idle == [ pc |-> "idle" ]
NoTask == "none"
IdleTasks == tasks = [t \in Tasks |-> Idle]
IdleMem   == session_contexts = <<>> /\ lock = NoTask

\* SQLiteRAG(): a new, empty database (the sweep of __init__ finds nothing).
InitRag == now = 0 /\ last = NoCall /\ IdleRag /\ IdleConv /\ IdleCache
    /\ IdleTasks /\ IdleMem

NextRag ==
    \/ Tick(RagMaxTime)
    \/ \E a \in Owners, p \in Payloads : store_context(a, p)
    \/ \E a \in Owners : clear_user_context(a)
    \/ rag_cleanup_old_data

SpecRag == InitRag /\ [][NextRag]_vars


\* ======================================================================
\* Conversation Store: ConversationMemory (backend/conversation_memory.py)
\* ======================================================================
max_conversations_per_user == 1   \* self.max_conversations_per_user, scaled down from 10
max_conversation_age == 0         \* self.max_conversation_age_days, in clock ticks

Roles == {"user", "assistant"}
NoTitle == "None"
Titles == {NoTitle, "plots"}
NoConv == <<>>                    \* None: start_conversation returned no id

\* _generate_conversation_id(access_code): md5 of "<access_code>_<timestamp>";
\* the digest identifies the pair (collisions of md5 are not modelled).
_generate_conversation_id(access_code) == <<access_code, now>>

\* The conversation ids start_conversation can return.
ConvIds == Owners \X (0..ConvMaxTime)

\* An id no conversation has: never returned by start_conversation.
UnknownId == <<"nobody", 0>>

\* The ids callers present: those of the stored conversations, and UnknownId.
PresentedIds == DOMAIN conversations \cup {UnknownId}

ConvMessages(msgs, conversation_id) ==
    { m \in msgs : m.conversation_id = conversation_id }

ActiveConvs(convs, access_code) ==
    { c \in DOMAIN convs : convs[c].access_code = access_code /\ convs[c].is_active }

\* An enforcement whose test is off by one: it lets one conversation more stay.
conv_old_conversations_late(convs, access_code) ==
    LET active == ActiveConvs(convs, access_code)
        count  == Cardinality(active)
        LastUpdated == [c \in active |-> convs[c].last_updated]
    IN  IF count > max_conversations_per_user + 1
        THEN OldestSets(active, count - max_conversations_per_user, LastUpdated)
        ELSE { {} }

\* _enforce_memory_limits(access_code): the sets of conversations it can pick
\* as old_conversations (the oldest by last_updated beyond the cap).
conv_old_conversations(convs, access_code) ==
    LET active == ActiveConvs(convs, access_code)
        count  == Cardinality(active)
        LastUpdated == [c \in active |-> convs[c].last_updated]
    IN  IF count > max_conversations_per_user
        THEN OldestSets(active, count - max_conversations_per_user, LastUpdated)
        ELSE { {} }

\* _enforce_memory_limits(access_code), with old_conversations chosen:
\* the messages of the old conversations are deleted ...
conv_enforce_messages(msgs, old_conversations) ==
    { m \in msgs : m.conversation_id \notin old_conversations }

\* ... and the old conversations are marked inactive.
conv_enforce_conversations(convs, old_conversations) ==
    [ c \in DOMAIN convs |->
        IF c \in old_conversations THEN [convs[c] EXCEPT !.is_active = FALSE]
        ELSE convs[c] ]

\* start_conversation(access_code, title)
start_conversation(access_code, title) ==
    LET conversation_id == _generate_conversation_id(access_code)
        row == [ access_code |-> access_code,
                 title |-> IF title = NoTitle THEN "New Conversation" ELSE title,
                 last_updated |-> now, message_count |-> 0, is_active |-> TRUE ]
        inserted == [ c \in DOMAIN conversations \cup {conversation_id} |->
                        IF c = conversation_id THEN row ELSE conversations[c] ]
    IN  IF conversation_id \in DOMAIN conversations
        THEN \* conversation_id is UNIQUE: the INSERT raises, None is returned
             /\ last' = [ op |-> "start", access_code |-> access_code,
                          ret |-> NoConv, evicted |-> {} ]
             /\ UNCHANGED <<now, ragVars, convVars, cacheVars, taskVars, memVars>>
        ELSE \E old \in conv_old_conversations(inserted, access_code) :
             /\ conversations' = conv_enforce_conversations(inserted, old)
             /\ messages' = conv_enforce_messages(messages, old)
             /\ last' = [ op |-> "start", access_code |-> access_code,
                          ret |-> conversation_id, evicted |-> old ]
             /\ UNCHANGED <<now, msgNextId, ragVars, cacheVars, taskVars, memVars>>

\* add_message(conversation_id, role, content): the INSERT does not depend on
\* the conversation row (SQLite enforces no foreign key unless asked to); the
\* UPDATE touches the conversation row if there is one.
add_message(conversation_id, role) ==
    /\ messages' = messages \cup
           { [ id |-> msgNextId, conversation_id |-> conversation_id,
               role |-> role, timestamp |-> now ] }
    /\ msgNextId' = msgNextId + 1
    /\ conversations' =
           [ c \in DOMAIN conversations |->
               IF c = conversation_id
               THEN [conversations[c] EXCEPT !.message_count = @ + 1,
                                             !.last_updated = now]
               ELSE conversations[c] ]
    /\ last' = [ op |-> "add_message", ret |-> TRUE ]
    /\ UNCHANGED <<now, ragVars, cacheVars, taskVars, memVars>>

\* The orders a sequence of rows can have so that ts never increases
\* (ORDER BY timestamp DESC), rows of equal timestamp in any order.
IsDescending(q) ==
    \A i \in 1..(Len(q) - 1) : q[i].timestamp >= q[i + 1].timestamp

SeqsOf(S) ==
    { q \in [1..Cardinality(S) -> S] : \A i, j \in 1..Cardinality(S) : i # j => q[i] # q[j] }

\* SELECT ... FROM messages WHERE conversation_id = ?
\*   ORDER BY timestamp DESC LIMIT ?  -- the row lists the query can return
SelectRecent(msgs, conversation_id, max_messages) ==
    LET mine    == ConvMessages(msgs, conversation_id)
        k       == Min(max_messages, Cardinality(mine))
        dropped == OldestSets(mine, Cardinality(mine) - k,
                              [m \in mine |-> RowTimestamp(m)])
    IN  UNION { { q \in SeqsOf(mine \ D) : IsDescending(q) } : D \in dropped }

\* list(reversed(messages))
Reversed(q) == [ i \in 1..Len(q) |-> q[Len(q) + 1 - i] ]

\* get_conversation_history(conversation_id, max_messages)
get_conversation_history(conversation_id, max_messages) ==
    /\ \E q \in SelectRecent(messages, conversation_id, max_messages) :
          last' = [ op |-> "history", conversation_id |-> conversation_id,
                    max_messages |-> max_messages, ret |-> Reversed(q) ]
    /\ UNCHANGED <<now, ragVars, convVars, cacheVars, taskVars, memVars>>

\* A clear_conversation whose UPDATE has lost its WHERE clause: it resets
\* every conversation row.
clear_conversation_every_row(conversation_id) ==
    /\ messages' = messages \ ConvMessages(messages, conversation_id)
    /\ conversations' =
           [ c \in DOMAIN conversations |->
               [conversations[c] EXCEPT !.message_count = 0,
                                        !.last_updated = now] ]
    /\ last' = [ op |-> "clear", ret |-> TRUE,
                 deleted |-> Cardinality(ConvMessages(messages, conversation_id)) ]
    /\ UNCHANGED <<now, msgNextId, ragVars, cacheVars, taskVars, memVars>>

\* clear_conversation(conversation_id); the call record keeps the number of
\* message rows the DELETE removed.
clear_conversation(conversation_id) ==
    /\ messages' = messages \ ConvMessages(messages, conversation_id)
    /\ conversations' =
           [ c \in DOMAIN conversations |->
               IF c = conversation_id
               THEN [conversations[c] EXCEPT !.message_count = 0,
                                             !.last_updated = now]
               ELSE conversations[c] ]
    /\ last' = [ op |-> "clear", ret |-> TRUE,
                 deleted |-> Cardinality(ConvMessages(messages, conversation_id)) ]
    /\ UNCHANGED <<now, msgNextId, ragVars, cacheVars, taskVars, memVars>>

\* delete_conversation(conversation_id)
delete_conversation(conversation_id) ==
    /\ messages' = messages \ ConvMessages(messages, conversation_id)
    /\ conversations' =
           [ c \in DOMAIN conversations \ {conversation_id} |-> conversations[c] ]
    /\ last' = [ op |-> "delete", conversation_id |-> conversation_id,
                 ret |-> TRUE ]
    /\ UNCHANGED <<now, msgNextId, ragVars, cacheVars, taskVars, memVars>>

\* _cleanup_old_data(): DELETE FROM conversations WHERE last_updated < cutoff_date
\* (table messages is not touched)
conv_cleanup_old_data ==
    /\ conversations' =
           [ c \in { d \in DOMAIN conversations :
                       ~(conversations[d].last_updated < now - max_conversation_age) }
               |-> conversations[c] ]
    /\ last' = [ op |-> "sweep" ]
    /\ UNCHANGED <<now, messages, msgNextId, ragVars, cacheVars, taskVars, memVars>>

\* ConversationMemory(): a new, empty database.
InitConv == now = 0 /\ last = NoCall /\ IdleRag /\ IdleConv /\ IdleCache
    /\ IdleTasks /\ IdleMem

NextConv ==
    \/ Tick(ConvMaxTime)
    \/ \E a \in Owners : start_conversation(a, NoTitle)
    \/ \E c \in PresentedIds : msgNextId <= MaxMsgId /\ add_message(c, "user")
    \/ \E c \in PresentedIds : clear_conversation(c)
    \/ \E c \in PresentedIds : delete_conversation(c)
    \/ conv_cleanup_old_data

SpecConv == InitConv /\ [][NextConv]_vars

\* Appending to the conversations of one owner and reading their history back.
NextHist ==
    \/ Tick(ConvMaxTime)
    \/ start_conversation("A", NoTitle)
    \/ \E c \in DOMAIN conversations, r \in Roles :
          msgNextId <= MaxHistMsgId /\ add_message(c, r)
    \/ \E c \in PresentedIds, n \in 1..MaxLimit : get_conversation_history(c, n)

SpecHist == InitConv /\ [][NextHist]_vars

\* One ConversationMemory instance serving requests. _cleanup_old_data is
\* called from __init__ only, on the database as it is at construction (here
\* new and empty); no public method calls it, so it is no step of the
\* running instance.
NextServe ==
    \/ Tick(ConvMaxTime)
    \/ \E a \in Owners : start_conversation(a, NoTitle)
    \/ \E c \in PresentedIds : msgNextId <= MaxMsgId /\ add_message(c, "user")
    \/ \E c \in PresentedIds : clear_conversation(c)
    \/ \E c \in PresentedIds : delete_conversation(c)

\* The clock keeps advancing and the instance keeps serving whatever
\* request can be served.
SpecServe ==
    InitConv /\ [][NextServe]_vars
        /\ WF_vars(Tick(ConvMaxTime)) /\ WF_vars(NextServe)

\* ConversationMemory.start_conversation called from several tasks. The call
\* commits its INSERT (lines 130-136) and then runs _enforce_memory_limits in
\* a connection of its own (line 139, lines 88-119); the transactions of
\* other tasks come in between. add_message is one transaction.
conc_start_insert(t, access_code) ==
    LET conversation_id == _generate_conversation_id(access_code)
        row == [ access_code |-> access_code, title |-> "New Conversation",
                 last_updated |-> now, message_count |-> 0, is_active |-> TRUE ]
    IN  /\ tasks[t].pc = "idle"
        /\ IF conversation_id \in DOMAIN conversations
           THEN \* conversation_id is UNIQUE: the INSERT raises, None is returned
                /\ last' = [ op |-> "start", task |-> t, ret |-> NoConv ]
                /\ UNCHANGED <<conversations, tasks>>
           ELSE /\ conversations' =
                       [ c \in DOMAIN conversations \cup {conversation_id} |->
                           IF c = conversation_id THEN row ELSE conversations[c] ]
                /\ tasks' = [tasks EXCEPT ![t] =
                                [ pc |-> "enforce", access_code |-> access_code,
                                  conversation_id |-> conversation_id ]]
                /\ last' = last
        /\ UNCHANGED <<now, messages, msgNextId, ragVars, cacheVars, memVars>>

\* start_conversation, lines 139-141: the enforcement, then the return.
conc_start_enforce(t) ==
    /\ tasks[t].pc = "enforce"
    /\ \E old \in conv_old_conversations(conversations, tasks[t].access_code) :
          /\ conversations' = conv_enforce_conversations(conversations, old)
          /\ messages' = conv_enforce_messages(messages, old)
    /\ last' = [ op |-> "start", task |-> t, ret |-> tasks[t].conversation_id ]
    /\ tasks' = [tasks EXCEPT ![t] = Idle]
    /\ UNCHANGED <<now, msgNextId, ragVars, cacheVars, memVars>>

\* add_message called by a task that is in no other call.
conc_add_message(t, conversation_id, role) ==
    /\ tasks[t].pc = "idle"
    /\ add_message(conversation_id, role)

NextConvConc ==
    \/ Tick(ConvConcMaxTime)
    \/ \E t \in Tasks, a \in Owners : conc_start_insert(t, a)
    \/ \E t \in Tasks : conc_start_enforce(t)
    \/ \E t \in Tasks, c \in DOMAIN conversations :
          msgNextId <= MaxMsgId /\ conc_add_message(t, c, "user")

SpecConvConc == InitConv /\ [][NextConvConc]_vars

\* ----------------------------------------------------------------------
\* format_conversation_context: the text is a sequence of lines. A line is
\* blank, the header, the label of a message or the content of a message
\* (the content stands as the id of its row). The "Context:" line of a
\* message stored with context_data is left out: add_message is called
\* without context_data here.
\* ----------------------------------------------------------------------
Line(kind, emoji, text, n) == [ kind |-> kind, emoji |-> emoji, text |-> text, n |-> n ]
BlankLine == Line("blank", "", "", 0)
HeaderLine == Line("header", "", "=== CONVERSATION HISTORY ===", 0)

\* role_emoji: one text for 'user' (U+1F464 in the source's encoding),
\* another for any other role (U+1F916)
role_emoji(role) == IF role = "user" THEN "U+1F464" ELSE "U+1F916"

\* str.title() of the role
Title(role) == CASE role = "user" -> "User" [] role = "assistant" -> "Assistant"

\* The lines of one message, numbered n:
\* "\n{role_emoji} {Role} (Message {n}):\n{content}\n"
MessageLines(msg, n) ==
    << BlankLine,
       Line("label", role_emoji(msg.role), Title(msg.role), n),
       Line("content", "", "", msg.id) >>

\* A rendering that numbers the messages from 0 (enumerate without start).
RECURSIVE RenderFrom_zero(_, _)
RenderFrom_zero(msgs, n) ==
    IF msgs = <<>> THEN <<>>
    ELSE MessageLines(Head(msgs), n - 1) \o RenderFrom_zero(Tail(msgs), n + 1)

\* for i, msg in enumerate(messages, 1): the lines of the messages, the
\* first numbered n.
RECURSIVE RenderFrom(_, _)
RenderFrom(msgs, n) ==
    IF msgs = <<>> THEN <<>>
    ELSE MessageLines(Head(msgs), n) \o RenderFrom(Tail(msgs), n + 1)

\* The text for the messages get_conversation_history returned: "" for
\* none, else "\n\n=== CONVERSATION HISTORY ===\n" and the lines of each.
Rendered(msgs) ==
    IF msgs = <<>> THEN <<>>
    ELSE <<BlankLine, BlankLine, HeaderLine>> \o RenderFrom(msgs, 1)

\* format_conversation_context(conversation_id, max_messages)
format_conversation_context(conversation_id, max_messages) ==
    /\ \E q \in SelectRecent(messages, conversation_id, max_messages) :
          last' = [ op |-> "format", conversation_id |-> conversation_id,
                    max_messages |-> max_messages,
                    messages |-> Reversed(q), ret |-> Rendered(Reversed(q)) ]
    /\ UNCHANGED <<now, ragVars, convVars, cacheVars, taskVars, memVars>>

NextFormat ==
    \/ Tick(ConvMaxTime)
    \/ start_conversation("A", NoTitle)
    \/ \E c \in DOMAIN conversations, r \in Roles :
          msgNextId <= MaxHistMsgId /\ add_message(c, r)
    \/ \E c \in PresentedIds, n \in 1..MaxLimit : format_conversation_context(c, n)

SpecFormat == InitConv /\ [][NextFormat]_vars

\* ======================================================================
\* Response Cache: SmartResponseCache (backend/response_cache.py) and the
\* fingerprint of ContextSummarizer (backend/context_summarizer.py)
\* ======================================================================
max_cache_size == 1     \* SmartResponseCache(max_cache_size=...), scaled down
cache_ttl == 1          \* SmartResponseCache(cache_ttl_hours=...), in clock ticks
RecentCommands == 5     \* console_history[-5:]
ActivePackages == 10    \* packages[:10]

\* A prompt is a text: words separated by single blanks, possibly with
\* whitespace before and after, possibly with upper-case letters.
Prompt(words, lead, trail, upper) ==
    [ words |-> words, lead |-> lead, trail |-> trail, upper |-> upper ]

Prompts ==
    { Prompt(<<"explain">>, FALSE, TRUE, FALSE),
      Prompt(<<"explain">>, TRUE, TRUE, TRUE),
      Prompt(<<"explain">>, FALSE, FALSE, FALSE),
      Prompt(<<"how", "to", "fix", "this", "error">>, FALSE, FALSE, FALSE) }

\* prompt.lower() and prompt.lower().strip()
Lower(p) == [p EXCEPT !.upper = FALSE]
LowerStrip(p) == [p EXCEPT !.upper = FALSE, !.lead = FALSE, !.trail = FALSE]

\* A pattern is a list of words joined by \s+, with or without a final \s+.
Pattern(words, ws) == [ words |-> words, ws |-> ws ]

\* self.cacheable_patterns
cacheable_patterns ==
    << Pattern(<<"how", "to">>, TRUE), Pattern(<<"what", "is">>, TRUE),
       Pattern(<<"explain">>, TRUE), Pattern(<<"create", "a">>, TRUE),
       Pattern(<<"make", "a">>, TRUE), Pattern(<<"generate", "a">>, TRUE),
       Pattern(<<"plot">>, TRUE), Pattern(<<"visualize">>, TRUE),
       Pattern(<<"show", "me", "how", "to">>, TRUE),
       Pattern(<<"can", "you", "explain">>, TRUE),
       Pattern(<<"what", "does">>, TRUE), Pattern(<<"define">>, TRUE),
       Pattern(<<"describe">>, TRUE) >>

\* self.non_cacheable_patterns
non_cacheable_patterns ==
    << Pattern(<<"what", "data", "do", "i", "have">>, FALSE),
       Pattern(<<"what", "is", "wrong", "with">>, FALSE),
       Pattern(<<"error">>, TRUE), Pattern(<<"debug">>, TRUE),
       Pattern(<<"fix">>, TRUE), Pattern(<<"problem", "with">>, FALSE),
       Pattern(<<"issue", "with">>, FALSE),
       Pattern(<<"what", "does", "this", "output", "mean">>, FALSE),
       Pattern(<<"why", "is", "this", "happening">>, FALSE),
       Pattern(<<"what", "went", "wrong">>, FALSE),
       Pattern(<<"troubleshoot">>, FALSE), Pattern(<<"diagnose">>, FALSE) >>

\* Words of the prompts that hold a word of the patterns without being it:
\* <<w, v>> says that w ends with v, starts with v, holds v inside.
WordSuffixes == { <<"show", "how">>, <<"prefix", "fix">> }
WordPrefixes == { <<"troubleshooting", "troubleshoot">> }
WordInfixes  == { <<"misdiagnosed", "diagnose">> }
EndsWith(w, v)   == w = v \/ <<w, v>> \in WordSuffixes
StartsWith(w, v) == w = v \/ <<w, v>> \in WordPrefixes
Contains(w, v)   == EndsWith(w, v) \/ StartsWith(w, v) \/ <<w, v>> \in WordInfixes

\* re.search(pattern, text) for a lower-case text, with the pattern starting
\* in the text's word i. The pattern is not anchored: its first word may be
\* the end of a text word and, without a final \s+, its last word may be the
\* start of one; a final \s+ needs whitespace after the last matched word.
MatchesAt(pat, text, i) ==
    LET k == Len(pat.words)
        n == Len(text.words)
        WordMatches(j) ==
            LET w == text.words[i + j - 1]
                v == pat.words[j]
            IN  IF j = 1 /\ (k > 1 \/ pat.ws) THEN EndsWith(w, v)
                ELSE IF j = 1 THEN Contains(w, v)
                ELSE IF j = k /\ ~pat.ws THEN StartsWith(w, v)
                ELSE w = v
    IN  /\ i + k - 1 <= n
        /\ \A j \in 1..k : WordMatches(j)
        /\ pat.ws => (i + k - 1 < n \/ text.trail)

re_search(pat, text) ==
    /\ ~text.upper
    /\ \E i \in 1..Len(text.words) : MatchesAt(pat, text, i)

\* A classifier that tries the allow list first.
is_cacheable_question_allow_first(prompt) ==
    LET prompt_lower == Lower(prompt)
    IN  IF \E i \in 1..Len(cacheable_patterns) :
               re_search(cacheable_patterns[i], prompt_lower)
        THEN TRUE
        ELSE FALSE

\* is_cacheable_question(prompt): the deny list first, then the allow list.
is_cacheable_question(prompt) ==
    LET prompt_lower == Lower(prompt)
    IN  IF \E i \in 1..Len(non_cacheable_patterns) :
               re_search(non_cacheable_patterns[i], prompt_lower)
        THEN FALSE
        ELSE \E i \in 1..Len(cacheable_patterns) :
               re_search(cacheable_patterns[i], prompt_lower)

\* A snapshot (context_data): None or {}, or a dict with workspace_objects
\* (its keys), console_history, environment_info.packages and the length of
\* document_content.
NoSnapshot ==
    [ given |-> FALSE, workspace_objects |-> {}, console_history |-> <<>>,
      packages |-> <<>>, document_length |-> 0 ]
Snapshot(objs, history, packages, doclen) ==
    [ given |-> TRUE, workspace_objects |-> objs, console_history |-> history,
      packages |-> packages, document_length |-> doclen ]

Snapshots ==
    { NoSnapshot,
      Snapshot({"df"}, <<"c0", "c1", "c2", "c3", "c4", "c5">>, <<"ggplot2">>, 1),
      Snapshot({"df"}, <<"c9", "c1", "c2", "c3", "c4", "c5">>, <<"ggplot2">>, 1),
      Snapshot({"df"}, <<"c0", "c1", "c2", "c3", "c4", "c5">>, <<"ggplot2">>, 2) }

\* seq[-n:] and seq[:n]
LastN(seq, n) ==
    IF Len(seq) <= n THEN seq ELSE SubSeq(seq, Len(seq) - n + 1, Len(seq))
FirstN(seq, n) == IF Len(seq) <= n THEN seq ELSE SubSeq(seq, 1, n)

\* get_context_fingerprint(context_data): the text "empty", or the JSON text
\* of the four fields (workspace_keys sorted: a set of names).
get_context_fingerprint(context_data) ==
    IF ~context_data.given
    THEN [ json |-> FALSE, workspace_keys |-> {}, recent_commands |-> <<>>,
           active_packages |-> <<>>, document_length |-> 0 ]
    ELSE [ json |-> TRUE,
           workspace_keys |-> context_data.workspace_objects,
           recent_commands |-> LastN(context_data.console_history, RecentCommands),
           active_packages |-> FirstN(context_data.packages, ActivePackages),
           document_length |-> context_data.document_length ]

\* A key made of the normalized prompt alone.
get_cache_key_prompt_only(prompt, context_data) == <<LowerStrip(prompt)>>

\* get_cache_key(prompt, context_data): md5 of the JSON text of the
\* normalized prompt and the fingerprint; the digest identifies the pair
\* (collisions of md5 are not modelled).
get_cache_key(prompt, context_data) ==
    <<LowerStrip(prompt), get_context_fingerprint(context_data)>>

\* set(seq): the elements of a list
Elems(seq) == { seq[i] : i \in 1..Len(seq) }

\* The sum of the Jaccard indices divided by three, whatever the number of
\* features present.
_check_context_similarity_by_three(cached_fingerprint, current_fingerprint) ==
    IF ~cached_fingerprint.json \/ ~current_fingerprint.json THEN <<0, 1>>
    ELSE
    LET pairs == << <<cached_fingerprint.workspace_keys,
                      current_fingerprint.workspace_keys>>,
                    <<Elems(cached_fingerprint.recent_commands),
                      Elems(current_fingerprint.recent_commands)>>,
                    <<Elems(cached_fingerprint.active_packages),
                      Elems(current_fingerprint.active_packages)>> >>
        present == { i \in 1..3 : pairs[i][1] \cup pairs[i][2] # {} }
        inter(i) == Cardinality(pairs[i][1] \cap pairs[i][2])
        union(i) == IF i \in present
                    THEN Cardinality(pairs[i][1] \cup pairs[i][2]) ELSE 1
        all == union(1) * union(2) * union(3)
        part(i) == IF i \in present THEN inter(i) * (all \div union(i)) ELSE 0
    IN  <<part(1) + part(2) + part(3), 3 * all>>

\* _check_context_similarity(cached_fingerprint, current_fingerprint): the
\* average of the Jaccard indices of the features present on either side, as
\* the fraction <<numerator, denominator>>; 0.0 when json.loads raises (the
\* text "empty") and when no feature is present.
_check_context_similarity(cached_fingerprint, current_fingerprint) ==
    IF ~cached_fingerprint.json \/ ~current_fingerprint.json THEN <<0, 1>>
    ELSE
    LET pairs == << <<cached_fingerprint.workspace_keys,
                      current_fingerprint.workspace_keys>>,
                    <<Elems(cached_fingerprint.recent_commands),
                      Elems(current_fingerprint.recent_commands)>>,
                    <<Elems(cached_fingerprint.active_packages),
                      Elems(current_fingerprint.active_packages)>> >>
        present == { i \in 1..3 : pairs[i][1] \cup pairs[i][2] # {} }
        inter(i) == Cardinality(pairs[i][1] \cap pairs[i][2])
        union(i) == IF i \in present
                    THEN Cardinality(pairs[i][1] \cup pairs[i][2]) ELSE 1
        all == union(1) * union(2) * union(3)
        part(i) == IF i \in present THEN inter(i) * (all \div union(i)) ELSE 0
    IN  IF present = {} THEN <<0, 1>>
        ELSE <<part(1) + part(2) + part(3), Cardinality(present) * all>>

\* context_similarity > 0.8
AboveThreshold(sim) == 5 * sim[1] > 4 * sim[2]

\* An entry stays valid up to and including the moment its ttl has elapsed.
IsValidAt_inclusive(entry, t) == t - entry.timestamp <= cache_ttl

\* get without the check of the entry's age.
IsValidAt_unchecked(entry, t) == TRUE

\* datetime.now() - entry['timestamp'] < self.cache_ttl
IsValidAt(entry, t) == t - entry.timestamp < cache_ttl

\* current_time - entry['timestamp'] > self.cache_ttl
IsOldAt(entry, t) == t - entry.timestamp > cache_ttl

Responses == {"r1", "r2"}
Miss == [ hit |-> FALSE ]

\* The position of cache_key in the dict, 0 when it is not in it.
IndexOf(dict, cache_key) ==
    IF \E i \in 1..Len(dict) : dict[i].key = cache_key
    THEN CHOOSE i \in 1..Len(dict) : dict[i].key = cache_key
    ELSE 0

\* get: "if not self.is_cacheable_question(prompt): return None"
get_refuses(prompt) == ~is_cacheable_question(prompt)

\* What get(prompt, context_data) returns at time t.
GetResult(dict, prompt, context_data, t) ==
    LET i == IndexOf(dict, get_cache_key(prompt, context_data))
    IN  IF get_refuses(prompt) \/ i = 0 THEN Miss
        ELSE LET entry == dict[i]
                 sim   == _check_context_similarity(
                              entry.context_fingerprint,
                              get_context_fingerprint(context_data))
             IN  IF IsValidAt(entry, t) /\ AboveThreshold(sim)
                 THEN [ hit |-> TRUE, response |-> entry.response,
                        context_similarity |-> sim,
                        cache_age |-> t - entry.timestamp ]
                 ELSE Miss

\* A get that deletes the entry it finds expired.
cache_get_evicting(prompt, context_data) ==
    /\ last' = [ op |-> "get", prompt |-> prompt, context_data |-> context_data,
                 at |-> now, ret |-> GetResult(cache, prompt, context_data, now) ]
    /\ cache' = SelectSeq(cache, LAMBDA e :
                     ~(e.key = get_cache_key(prompt, context_data)
                        /\ ~IsValidAt(e, now)))
    /\ UNCHANGED <<now, ragVars, convVars, taskVars, memVars>>

\* get(prompt, context_data)
cache_get(prompt, context_data) ==
    /\ last' = [ op |-> "get", prompt |-> prompt, context_data |-> context_data,
                 at |-> now, ret |-> GetResult(cache, prompt, context_data, now) ]
    /\ UNCHANGED <<now, ragVars, convVars, cacheVars, taskVars, memVars>>

\* The items of a dict in the order of sorted(.., key=timestamp): a stable
\* sort, items of equal timestamp stay in dict order.
RECURSIVE SortedByTimestamp(_)
SortedByTimestamp(dict) ==
    IF dict = <<>> THEN <<>>
    ELSE LET i == CHOOSE i \in 1..Len(dict) :
                    /\ \A j \in 1..Len(dict) : dict[i].timestamp <= dict[j].timestamp
                    /\ \A j \in 1..(i - 1) : dict[j].timestamp > dict[i].timestamp
         IN  <<dict[i]>> \o
             SortedByTimestamp(SubSeq(dict, 1, i - 1) \o SubSeq(dict, i + 1, Len(dict)))

\* The dict without the items that satisfy Drop, in dict order.
RECURSIVE Without(_, _)
Without(dict, Drop) ==
    IF dict = <<>> THEN <<>>
    ELSE (IF Head(dict) \in Drop THEN <<>> ELSE <<Head(dict)>>)
         \o Without(Tail(dict), Drop)

\* A cleanup that drops the entries past ttl and nothing else.
_cleanup_old_entries_ttl_only(dict, t) ==
    Without(dict, { e \in Elems(dict) : IsOldAt(e, t) })

\* _cleanup_old_entries() at time t
_cleanup_old_entries(dict, t) ==
    LET old_keys == { e \in Elems(dict) : IsOldAt(e, t) }
        kept     == Without(dict, old_keys)
    IN  IF Len(kept) > max_cache_size
        THEN LET sorted_entries    == SortedByTimestamp(kept)
                 entries_to_remove == Len(sorted_entries) - max_cache_size
             IN  Without(kept, Elems(SubSeq(sorted_entries, 1, entries_to_remove)))
        ELSE kept

\* self.cache[cache_key] = entry: a new key goes last, a key already in the
\* dict keeps its place.
Assign(dict, entry) ==
    LET i == IndexOf(dict, entry.key)
    IN  IF i = 0 THEN Append(dict, entry) ELSE [dict EXCEPT ![i] = entry]

\* set without the early return: every prompt is cached.
set_refuses_never(prompt) == FALSE

\* set: "if not self.is_cacheable_question(prompt): return"
set_refuses(prompt) == ~is_cacheable_question(prompt)

\* set(prompt, context_data, response). The record of the call says how many
\* entries the call removed.
cache_set(prompt, context_data, response) ==
    LET entry == [ key |-> get_cache_key(prompt, context_data),
                   response |-> response,
                   timestamp |-> now,
                   context_fingerprint |-> get_context_fingerprint(context_data),
                   prompt |-> LowerStrip(prompt) ]
        assigned == Assign(cache, entry)
        result == IF set_refuses(prompt) THEN cache
                  ELSE IF Len(assigned) > max_cache_size
                       THEN _cleanup_old_entries(assigned, now)
                       ELSE assigned
    IN  /\ cache' = result
        /\ last' = [ op |-> "set", prompt |-> prompt,
                     removed |-> IF set_refuses(prompt) THEN 0
                                 ELSE Len(assigned) - Len(result) ]
        /\ UNCHANGED <<now, ragVars, convVars, taskVars, memVars>>

\* clear_cache()
clear_cache ==
    /\ cache' = <<>>
    /\ last' = [ op |-> "clear" ]
    /\ UNCHANGED <<now, ragVars, convVars, taskVars, memVars>>

\* SmartResponseCache(): an empty cache.
InitCache == now = 0 /\ last = NoCall /\ IdleRag /\ IdleConv /\ IdleCache
    /\ IdleTasks /\ IdleMem

NextCache ==
    \/ Tick(CacheMaxTime)
    \/ \E p \in Prompts, s \in Snapshots : cache_get(p, s)
    \/ \E p \in Prompts, s \in Snapshots, r \in Responses : cache_set(p, s, r)
    \/ clear_cache

SpecCache == InitCache /\ [][NextCache]_vars

\* The cache read and written with one cacheable prompt and snapshots that
\* differ from one another in one field of the fingerprint: no snapshot, a
\* document only, and a workspace with its commands in either order and its
\* document in either length.
KeyPrompt == Prompt(<<"how", "to", "plot", "a", "histogram">>, FALSE, FALSE, FALSE)

KeySnapshots ==
    { NoSnapshot,
      Snapshot({}, <<>>, <<>>, 1),
      Snapshot({"df"}, <<"c1", "c2">>, <<"ggplot2">>, 1),
      Snapshot({"df"}, <<"c2", "c1">>, <<"ggplot2">>, 1),
      Snapshot({"df"}, <<"c1", "c2">>, <<"ggplot2">>, 2) }

NextKey ==
    \/ Tick(CacheMaxTime)
    \/ \E s \in KeySnapshots : cache_get(KeyPrompt, s)
    \/ \E s \in KeySnapshots, r \in Responses : cache_set(KeyPrompt, s, r)

SpecKey == InitCache /\ [][NextKey]_vars

\* ----------------------------------------------------------------------
\* The content hash of payloads built in different key orders: the first
\* lines of store_context applied to a pair of payloads, the second looked
\* up in a table that holds the row of the first.
\* ----------------------------------------------------------------------
KeyOrders == { <<1>>, <<2>>, <<1, 2>>, <<2, 1>> }

\* {"a": 1}, {"b": 1}, {"a": 1, "b": 1}, {"b": 1, "a": 1}
FlatPayloads == { [ i \in 1..Len(o) |-> <<o[i], IntV(1)>> ] : o \in KeyOrders }

\* A dict of FlatPayloads under key "a" or "b", alone or beside a number,
\* in both orders.
NestedPayloads ==
    { << <<k, DictV(f)>> >> : k \in {1, 2}, f \in FlatPayloads }
    \cup { << <<1, DictV(f)>>, <<2, IntV(1)>> >> : f \in FlatPayloads }
    \cup { << <<2, IntV(1)>>, <<1, DictV(f)>> >> : f \in FlatPayloads }

HashPayloads == FlatPayloads \cup NestedPayloads

InitHash ==
    /\ now = 0 /\ IdleRag /\ IdleConv /\ IdleCache /\ IdleTasks /\ IdleMem
    /\ \E p \in HashPayloads, q \in HashPayloads :
          last = [ op |-> "pair", first |-> p, second |-> q ]

\* store_context, lines 141-149, for the first payload and then the second.
content_hashes ==
    /\ last.op = "pair"
    /\ LET hash1 == _generate_content_hash(json_dumps_sort_keys(last.first))
           hash2 == _generate_content_hash(json_dumps_sort_keys(last.second))
           row1  == [ id |-> 1, access_code |-> "A", content_hash |-> hash1,
                      timestamp |-> now ]
       IN  last' = [ op |-> "content_hash", first |-> last.first,
                     second |-> last.second, hash1 |-> hash1, hash2 |-> hash2,
                     existing |-> ExistingRows({row1}, hash2) # {} ]
    /\ UNCHANGED <<now, ragVars, convVars, cacheVars, taskVars, memVars>>

NextHash == content_hashes

SpecHash == InitHash /\ [][NextHash]_vars

\* ----------------------------------------------------------------------
\* retrieve_relevant_context: the FTS5 search over the rows store_context
\* has inserted. The index holds, for each row, the tokens of the columns
\* content, context_type and access_code (triggers contexts_ai, contexts_ad);
\* the tokenizer folds case.
\* ----------------------------------------------------------------------
KeyNames == <<"a", "b">>      \* the text of key 1 and of key 2
Fold == [ t \in {"a", "b", "A", "B", "1", "general"} |->
            CASE t = "A" -> "a" [] t = "B" -> "b" [] OTHER -> t ]

\* The tokens of the JSON text of a canonical content: key names and numbers.
RECURSIVE ContentTokens(_)
ContentTokens(content) ==
    IF content = <<>> THEN {}
    ELSE LET kv == Head(content)
         IN  {KeyNames[kv[1]]}
             \cup (IF kv[2][1] = "dict" THEN ContentTokens(kv[2][2]) ELSE {"1"})
             \cup ContentTokens(Tail(content))

\* The tokens the index holds for a row.
RowTokens(r) ==
    ContentTokens(r.content_hash[2]) \cup {"general", Fold[r.access_code]}

\* The queries callers present: a term, or text that is no FTS5 query.
BadQuery == "*"
Queries == {"1", "B", BadQuery}

\* The contents stored before searching: {"a": 1}, {"b": 1}, {"a": 1, "b": 1}
RetrievePayloads == { << <<1, IntV(1)>> >>, << <<2, IntV(1)>> >>, PayloadAB }

\* A search that has lost its restriction to the owner's rows.
MatchingRows_any_owner(tbl, access_code, query) ==
    { r \in tbl : Fold[query] \in RowTokens(r) }

\* WHERE contexts_fts.access_code = ? AND contexts_fts MATCH ?
MatchingRows(tbl, access_code, query) ==
    { r \in tbl : r.access_code = access_code /\ Fold[query] \in RowTokens(r) }

\* ORDER BY rank DESC LIMIT n_results: n_results of the matching rows, or
\* all of them when there are fewer; the rank (bm25) decides which, and is
\* not modelled.
Limited(rows, n_results) ==
    { S \in SUBSET rows : Cardinality(S) = Min(n_results, Cardinality(rows)) }

\* retrieve_relevant_context(access_code, query, n_results): one SELECT; a
\* query FTS5 cannot parse raises, and the except clause returns [].
retrieve_relevant_context(access_code, query, n_results) ==
    /\ \E rows \in IF query = BadQuery THEN {{}}
                   ELSE Limited(MatchingRows(contexts, access_code, query), n_results) :
          last' = [ op |-> "retrieve", access_code |-> access_code,
                    query |-> query, n_results |-> n_results, ret |-> rows ]
    /\ UNCHANGED <<now, ragVars, convVars, cacheVars, taskVars, memVars>>

NextRetrieve ==
    \/ Tick(RagMaxTime)
    \/ \E a \in Owners, p \in RetrievePayloads : store_context(a, p)
    \/ \E a \in Owners, q \in Queries, n \in 0..MaxLimit :
          retrieve_relevant_context(a, q, n)

SpecRetrieve == InitRag /\ [][NextRetrieve]_vars

\* ----------------------------------------------------------------------
\* store_context and start_conversation called with a missing (None) or
\* empty owner and with missing (None) or empty content. Neither method
\* tests its arguments; what stops a call is the NOT NULL constraint on
\* access_code and the test '"workspace_summary" in context_data', both
\* inside the method's try block.
\* ----------------------------------------------------------------------
NoOwner == "None"                            \* access_code = None
EmptyOwner == ""                             \* access_code = ""
NoContent == << <<0, <<"null", 0>>>> >>      \* context_data = None, dumped as null
EmptyContent == <<>>                         \* context_data = {}
PresentedOwners == {"A", EmptyOwner, NoOwner}
PresentedPayloads == { << <<1, IntV(1)>> >>, EmptyContent, NoContent }

\* store_context, no duplicate, and the INSERT is not reached or fails:
\* context_data is None ('in' raises TypeError at line 166) or access_code
\* is None (NOT NULL constraint failed). _enforce_memory_limits has run; the
\* except clause returns None.
store_context_failing(access_code, context_data) ==
    LET content      == json_dumps_sort_keys(context_data)
        content_hash == _generate_content_hash(content)
    IN  /\ access_code = NoOwner \/ context_data = NoContent
        /\ ExistingRows(contexts, content_hash) = {}
        /\ \E tbl \in rag_enforce_memory_limits(contexts, access_code) :
              /\ contexts' = tbl
              /\ last' = StoreCall(access_code, content, NoId, contexts')
        /\ UNCHANGED <<now, ctxNextId, convVars, cacheVars, taskVars, memVars>>

\* store_context with any presented owner and content.
store_context_presented(access_code, context_data) ==
    \/ store_context_existing(access_code, context_data)
    \/ /\ access_code # NoOwner /\ context_data # NoContent
       /\ store_context_insert(access_code, context_data)
    \/ store_context_failing(access_code, context_data)

\* start_conversation(None): the INSERT fails (NOT NULL constraint failed:
\* conversations.access_code), the except clause returns None.
start_conversation_failing(access_code) ==
    /\ access_code = NoOwner
    /\ last' = [ op |-> "start", access_code |-> access_code,
                 ret |-> NoConv, evicted |-> {} ]
    /\ UNCHANGED <<now, ragVars, convVars, cacheVars, taskVars, memVars>>

\* start_conversation with any presented owner.
start_conversation_presented(access_code) ==
    \/ access_code # NoOwner /\ start_conversation(access_code, NoTitle)
    \/ start_conversation_failing(access_code)

NextValid ==
    \/ Tick(RagMaxTime)
    \/ \E a \in PresentedOwners, p \in PresentedPayloads :
          store_context_presented(a, p)
    \/ \E a \in PresentedOwners : start_conversation_presented(a)

SpecValid == InitRag /\ [][NextValid]_vars

\* ----------------------------------------------------------------------
\* get_cache_stats on the caches that set builds.
\* ----------------------------------------------------------------------

\* The Python type of each value of a cache entry, as set builds it (lines
\* 117-122): 'timestamp' is datetime.now(), the others are strings.
EntryTypes ==
    [ response |-> "str", timestamp |-> "datetime",
      context_fingerprint |-> "str", prompt |-> "str" ]

\* The types json.dumps serialises with its default encoder.
JsonTypes == {"str", "int", "float", "bool", "NoneType", "dict", "list", "tuple"}

\* json.dumps(entry) raises TypeError when a value of the entry is of a type
\* the default encoder does not know.
json_dumps_raises(entry) ==
    \E field \in DOMAIN EntryTypes : EntryTypes[field] \notin JsonTypes

\* _estimate_cache_size(): json.dumps of every entry; the rounded size in MB
\* of the small caches of the model is 0.
estimate_cache_size_raises ==
    \E entry \in Elems(cache) : json_dumps_raises(entry)

\* get_cache_stats()
get_cache_stats ==
    LET total_entries == Len(cache)
        expired_entries == Cardinality({ i \in 1..Len(cache) : IsOldAt(cache[i], now) })
    IN  /\ last' = IF estimate_cache_size_raises
                   THEN [ op |-> "get_cache_stats", raised |-> "TypeError" ]
                   ELSE [ op |-> "get_cache_stats",
                          ret |-> [ total_entries |-> total_entries,
                                    expired_entries |-> expired_entries,
                                    valid_entries |-> total_entries - expired_entries,
                                    cache_size_mb |-> 0 ] ]
        /\ UNCHANGED <<now, ragVars, convVars, cacheVars, taskVars, memVars>>

NextStats ==
    \/ Tick(CacheMaxTime)
    \/ \E p \in Prompts, s \in Snapshots, r \in Responses : cache_set(p, s, r)
    \/ clear_cache
    \/ get_cache_stats

SpecStats == InitCache /\ [][NextStats]_vars

\* ----------------------------------------------------------------------
\* is_cacheable_question applied to prompts: the three prompts of the
\* documentation and every prompt of up to MaxWords words of Words, with and
\* without surrounding whitespace and upper case.
\* ----------------------------------------------------------------------
Words == {"how", "to", "fix", "explain", "show", "prefix",
          "troubleshooting", "misdiagnosed", "hello"}

RECURSIVE WordSeqs(_)
WordSeqs(n) ==
    IF n = 0 THEN { <<>> }
    ELSE LET shorter == WordSeqs(n - 1)
         IN  shorter \cup { Append(q, w) : q \in shorter, w \in Words }

PlotHistogram  == Prompt(<<"how", "to", "plot", "a", "histogram">>, FALSE, FALSE, FALSE)
WhyError       == Prompt(<<"why", "is", "this", "error", "happening">>, FALSE, FALSE, FALSE)
FixError       == Prompt(<<"how", "to", "fix", "this", "error">>, FALSE, FALSE, FALSE)

ClassifyPrompts ==
    {PlotHistogram, WhyError, FixError} \cup
    { Prompt(q, lead, trail, upper) :
        q \in WordSeqs(MaxWords) \ { <<>> }, lead \in BOOLEAN,
        trail \in BOOLEAN, upper \in BOOLEAN }

\* The prompt to classify is drawn at the start.
InitClassify ==
    /\ now = 0 /\ IdleRag /\ IdleConv /\ IdleCache /\ IdleTasks /\ IdleMem
    /\ \E p \in ClassifyPrompts : last = [ op |-> "prompt", prompt |-> p ]

classify ==
    /\ last.op = "prompt"
    /\ last' = [ op |-> "is_cacheable_question", prompt |-> last.prompt,
                 ret |-> is_cacheable_question(last.prompt) ]
    /\ UNCHANGED <<now, ragVars, convVars, cacheVars, taskVars, memVars>>

NextClassify == classify

SpecClassify == InitClassify /\ [][NextClassify]_vars


\* ----------------------------------------------------------------------
\* _check_context_similarity applied to pairs of fingerprints: the text
\* "empty" and the JSON texts with workspace keys of FpNames and lists of up
\* to MaxFpLen commands and packages.
\* ----------------------------------------------------------------------
FpNames == {"df", "x"}
FpItems == {"c1", "c2"}

RECURSIVE ItemSeqs(_)
ItemSeqs(n) ==
    IF n = 0 THEN { <<>> }
    ELSE LET shorter == ItemSeqs(n - 1)
         IN  shorter \cup { Append(q, c) : q \in shorter, c \in FpItems }

Fingerprints ==
    { get_context_fingerprint(NoSnapshot) } \cup
    { get_context_fingerprint(Snapshot(objs, history, packages, doclen)) :
        objs \in SUBSET FpNames, history \in ItemSeqs(MaxFpLen),
        packages \in ItemSeqs(MaxFpLen), doclen \in {0, 1} }

\* The pair of fingerprints to compare is drawn at the start.
InitSim ==
    /\ now = 0 /\ IdleRag /\ IdleConv /\ IdleCache /\ IdleTasks /\ IdleMem
    /\ \E a \in Fingerprints, b \in Fingerprints :
          last = [ op |-> "pair", a |-> a, b |-> b ]

check_context_similarity ==
    /\ last.op = "pair"
    /\ last' = [ op |-> "_check_context_similarity", a |-> last.a, b |-> last.b,
                 ret |-> _check_context_similarity(last.a, last.b) ]
    /\ UNCHANGED <<now, ragVars, convVars, cacheVars, taskVars, memVars>>

NextSim == check_context_similarity

SpecSim == InitSim /\ [][NextSim]_vars


\* ----------------------------------------------------------------------
\* SmartResponseCache called from several tasks. The class holds no lock
\* (__init__ creates none, no method takes one); a call is a sequence of
\* steps on the shared dict, and the steps of different tasks interleave.
\* A step is one operation on the dict (an assignment, a len(), a del, an
\* iteration or sort taken as a whole).
\* ----------------------------------------------------------------------
Keys(dict) == { dict[i].key : i \in 1..Len(dict) }

\* The keys of the first n items of a list of entries.
FirstKeys(entries, n) == [ i \in 1..n |-> entries[i].key ]

\* The dict without the item of cache_key.
Deleted(dict, cache_key) == Without(dict, { e \in Elems(dict) : e.key = cache_key })

\* A task whose call has ended by raising the exception: it is in no call,
\* and its caller has seen the exception.
Raised(exception) == [ pc |-> "idle", raised |-> exception ]

\* set, line 117: self.cache[cache_key] = entry
conc_set_assign(t, prompt, context_data, response) ==
    /\ tasks[t].pc = "idle"
    /\ ~set_refuses(prompt)
    /\ cache' = Assign(cache,
                    [ key |-> get_cache_key(prompt, context_data),
                      response |-> response,
                      timestamp |-> now,
                      context_fingerprint |-> get_context_fingerprint(context_data),
                      prompt |-> LowerStrip(prompt) ])
    /\ tasks' = [tasks EXCEPT ![t] = [ pc |-> "set_check" ]]
    /\ UNCHANGED <<now, last, ragVars, convVars, memVars>>

\* set, line 125: if len(self.cache) > self.max_cache_size
conc_set_check(t) ==
    /\ tasks[t].pc = "set_check"
    /\ tasks' = [tasks EXCEPT ![t] =
                    IF Len(cache) > max_cache_size
                    THEN [ pc |-> "cleanup_scan" ] ELSE Idle]
    /\ UNCHANGED <<now, last, ragVars, convVars, cacheVars, memVars>>

\* _cleanup_old_entries, lines 166-171: old_keys
conc_cleanup_scan(t) ==
    /\ tasks[t].pc = "cleanup_scan"
    /\ LET old == SelectSeq(cache, LAMBDA e : IsOldAt(e, now))
       IN  tasks' = [tasks EXCEPT ![t] =
                        [ pc |-> "cleanup_old", keys |-> FirstKeys(old, Len(old)) ]]
    /\ UNCHANGED <<now, last, ragVars, convVars, cacheVars, memVars>>

\* _cleanup_old_entries, lines 175 and 183: del self.cache[key]; a key that
\* is no longer in the dict raises KeyError, which ends the call.
conc_cleanup_del(t) ==
    /\ tasks[t].pc \in {"cleanup_old", "cleanup_oldest"}
    /\ tasks[t].keys # <<>>
    /\ LET key == Head(tasks[t].keys)
       IN  IF key \in Keys(cache)
           THEN /\ cache' = Deleted(cache, key)
                /\ tasks' = [tasks EXCEPT ![t].keys = Tail(tasks[t].keys)]
           ELSE /\ cache' = cache
                /\ tasks' = [tasks EXCEPT ![t] = Raised("KeyError")]
    /\ UNCHANGED <<now, last, ragVars, convVars, memVars>>

\* _cleanup_old_entries, lines 178-180: the second test, sorted_entries and
\* entries_to_remove
conc_cleanup_sort(t) ==
    /\ tasks[t].pc = "cleanup_old"
    /\ tasks[t].keys = <<>>
    /\ tasks' = [tasks EXCEPT ![t] =
                    IF Len(cache) > max_cache_size
                    THEN [ pc |-> "cleanup_oldest",
                           keys |-> FirstKeys(SortedByTimestamp(cache),
                                              Len(cache) - max_cache_size) ]
                    ELSE Idle]
    /\ UNCHANGED <<now, last, ragVars, convVars, cacheVars, memVars>>

\* _cleanup_old_entries returns, and set with it.
conc_cleanup_return(t) ==
    /\ tasks[t].pc = "cleanup_oldest"
    /\ tasks[t].keys = <<>>
    /\ tasks' = [tasks EXCEPT ![t] = Idle]
    /\ UNCHANGED <<now, last, ragVars, convVars, cacheVars, memVars>>

\* clear_cache(): self.cache.clear()
conc_clear_cache(t) ==
    /\ tasks[t].pc = "idle"
    /\ cache' = <<>>
    /\ UNCHANGED <<now, last, ragVars, convVars, taskVars, memVars>>

NextCacheConc ==
    \/ Tick(CacheMaxTime)
    \/ \E t \in Tasks, p \in Prompts, s \in Snapshots :
          conc_set_assign(t, p, s, "r1")
    \/ \E t \in Tasks : conc_set_check(t)
    \/ \E t \in Tasks : conc_cleanup_scan(t)
    \/ \E t \in Tasks : conc_cleanup_del(t)
    \/ \E t \in Tasks : conc_cleanup_sort(t)
    \/ \E t \in Tasks : conc_cleanup_return(t)
    \/ \E t \in Tasks : conc_clear_cache(t)

SpecCacheConc == InitCache /\ [][NextCacheConc]_vars


\* ----------------------------------------------------------------------
\* SQLiteRAG.store_context called from several tasks. The call opens three
\* connections one after the other: the duplicate check (lines 145-158),
\* _enforce_memory_limits (lines 100-132) and the INSERT (lines 164-183).
\* Each is a transaction of its own; the transactions of different tasks
\* interleave. A task in a call remembers the table as its last transaction
\* left it (`seen`).
\* ----------------------------------------------------------------------
InCall(t) == tasks[t].pc # "idle"

\* The record of a store_context call of task t that has returned ret.
ConcStoreCall(t, content_hash, ret) ==
    [ op |-> "store", task |-> t, content_hash |-> content_hash, ret |-> ret ]

\* store_context, lines 141-158: the duplicate check; a duplicate is
\* refreshed and the call returns.
conc_store_check(t, access_code, context_data) ==
    LET content_hash == _generate_content_hash(json_dumps_sort_keys(context_data))
        existing     == ExistingRows(contexts, content_hash)
    IN  /\ tasks[t].pc = "idle"
        /\ IF existing # {}
           THEN /\ contexts' = { IF r \in existing
                                 THEN [r EXCEPT !.timestamp = now] ELSE r
                                 : r \in contexts }
                /\ tasks' = tasks
                /\ last' = ConcStoreCall(t, content_hash,
                                         (CHOOSE r \in existing : TRUE).id)
           ELSE /\ contexts' = contexts
                /\ tasks' = [tasks EXCEPT ![t] =
                                [ pc |-> "enforce", access_code |-> access_code,
                                  content_hash |-> content_hash,
                                  seen |-> contexts ]]
                /\ last' = last
        /\ UNCHANGED <<now, ctxNextId, convVars, cacheVars, memVars>>

\* store_context, line 161: self._enforce_memory_limits(access_code)
conc_store_enforce(t) ==
    /\ tasks[t].pc = "enforce"
    /\ \E tbl \in rag_enforce_memory_limits(contexts, tasks[t].access_code) :
          /\ contexts' = tbl
          /\ tasks' = [tasks EXCEPT ![t].pc = "insert", ![t].seen = tbl]
    /\ UNCHANGED <<now, last, ctxNextId, convVars, cacheVars, memVars>>

\* store_context, lines 164-192: the INSERT; content_hash is UNIQUE, a row
\* with the same hash makes the INSERT fail and the call return None.
conc_store_insert(t) ==
    /\ tasks[t].pc = "insert"
    /\ IF ExistingRows(contexts, tasks[t].content_hash) # {}
       THEN /\ UNCHANGED ragVars
            /\ last' = ConcStoreCall(t, tasks[t].content_hash, NoId)
       ELSE /\ contexts' = contexts \cup
                   { [ id |-> ctxNextId, access_code |-> tasks[t].access_code,
                       content_hash |-> tasks[t].content_hash,
                       timestamp |-> now ] }
            /\ ctxNextId' = ctxNextId + 1
            /\ last' = ConcStoreCall(t, tasks[t].content_hash, ctxNextId)
    /\ tasks' = [tasks EXCEPT ![t] = Idle]
    /\ UNCHANGED <<now, convVars, cacheVars, memVars>>

\* clear_user_context(access_code) and _cleanup_old_data(), called by a task
\* that is in no other call: one transaction each.
conc_clear_user_context(t, access_code) ==
    /\ tasks[t].pc = "idle"
    /\ clear_user_context(access_code)

conc_rag_cleanup_old_data(t) ==
    /\ tasks[t].pc = "idle"
    /\ rag_cleanup_old_data

NextRagConc ==
    \/ Tick(RagMaxTime)
    \/ \E t \in Tasks, a \in Owners, p \in Payloads :
          /\ ctxNextId + Cardinality({ u \in Tasks : InCall(u) }) <= MaxCtxId
          /\ conc_store_check(t, a, p)
    \/ \E t \in Tasks : conc_store_enforce(t)
    \/ \E t \in Tasks : conc_store_insert(t)
    \/ \E t \in Tasks, a \in Owners : conc_clear_user_context(t, a)
    \/ \E t \in Tasks : conc_rag_cleanup_old_data(t)

SpecRagConc == InitRag /\ [][NextRagConc]_vars


\* ======================================================================
\* Sessions: MemoryOnlyContext (backend/memory_only_context.py)
\* session_contexts maps an access code to its session: the list 'contexts'
\* and last_activity.
\* ======================================================================
max_session_age == 1    \* max_session_age_minutes, in clock ticks

MemOps == {"process_context", "get_session_contexts", "clear_session",
           "get_session_stats", "cleanup_all_sessions"}

\* A task calls a method: every method starts with "with self.lock".
mem_call(t, op, access_code, context_data) ==
    /\ tasks[t].pc = "idle"
    /\ tasks' = [tasks EXCEPT ![t] =
                    [ pc |-> "acquire", op |-> op, access_code |-> access_code,
                      context_data |-> context_data ]]
    /\ UNCHANGED <<now, last, ragVars, convVars, cacheVars, memVars>>

\* with self.lock: threading.Lock is not reentrant; the task waits until no
\* task holds the lock, itself included.
mem_acquire(t) ==
    /\ tasks[t].pc = "acquire"
    /\ lock = NoTask
    /\ lock' = t
    /\ tasks' = [tasks EXCEPT ![t].pc = "locked"]
    /\ UNCHANGED <<now, last, ragVars, convVars, cacheVars, session_contexts>>

\* The sessions that _cleanup_expired_sessions leaves.
Unexpired(sessions) ==
    LET keep == { a \in DOMAIN sessions :
                    ~(now - sessions[a].last_activity > max_session_age) }
    IN  [ a \in keep |-> sessions[a] ]

\* The session of access_code created if needed, its last_activity updated.
Touched(sessions, access_code) ==
    [ a \in DOMAIN sessions \cup {access_code} |->
        IF a = access_code
        THEN [ contexts |-> IF a \in DOMAIN sessions
                            THEN sessions[a].contexts ELSE <<>>,
               last_activity |-> now ]
        ELSE sessions[a] ]

Removed(sessions, access_code) ==
    [ a \in DOMAIN sessions \ {access_code} |-> sessions[a] ]

\* get_session_stats: len(session_data['contexts']), 0 when there is no
\* session.
context_count(sessions, access_code) ==
    IF access_code \in DOMAIN sessions
    THEN Len(sessions[access_code].contexts) ELSE 0

\* A MemoryOnlyContext whose process_context skips the cleanup and keeps the
\* context it was given in the session.
mem_locked_storing(t) ==
    /\ tasks[t].pc = "locked"
    /\ lock = t
    /\ LET op   == tasks[t].op
           code == tasks[t].access_code
       IN  CASE op = "process_context" ->
                  /\ session_contexts' =
                        [ a \in DOMAIN session_contexts \cup {code} |->
                            IF a = code
                            THEN [ contexts |-> <<tasks[t].context_data>>,
                                   last_activity |-> now ]
                            ELSE session_contexts[a] ]
                  /\ lock' = NoTask
                  /\ tasks' = [tasks EXCEPT ![t] = Idle]
                  /\ last' = [ op |-> "process_context", access_code |-> code,
                               ret |-> _generate_content_hash(
                                         json_dumps_sort_keys(tasks[t].context_data)) ]
             [] op = "_cleanup_expired_sessions" ->
                  /\ session_contexts' = Touched(Unexpired(session_contexts), code)
                  /\ lock' = NoTask
                  /\ tasks' = [tasks EXCEPT ![t] = Idle]
                  /\ last' = [ op |-> "process_context", access_code |-> code,
                               ret |-> _generate_content_hash(
                                         json_dumps_sort_keys(tasks[t].context_data)) ]
             [] op = "get_session_contexts" ->
                  /\ session_contexts' =
                        IF code \in DOMAIN session_contexts
                        THEN Touched(session_contexts, code) ELSE session_contexts
                  /\ lock' = NoTask
                  /\ tasks' = [tasks EXCEPT ![t] = Idle]
                  /\ last' = [ op |-> op, access_code |-> code, ret |-> <<>> ]
             [] op = "clear_session" ->
                  /\ session_contexts' = Removed(session_contexts, code)
                  /\ lock' = NoTask
                  /\ tasks' = [tasks EXCEPT ![t] = Idle]
                  /\ last' = [ op |-> op, access_code |-> code ]
             [] op = "get_session_stats" ->
                  /\ lock' = NoTask
                  /\ tasks' = [tasks EXCEPT ![t] = Idle]
                  /\ last' = [ op |-> op, access_code |-> code,
                               context_count |-> context_count(session_contexts, code),
                               session_active |-> code \in DOMAIN session_contexts ]
                  /\ UNCHANGED session_contexts
             [] op = "cleanup_all_sessions" ->
                  /\ session_contexts' = <<>>
                  /\ lock' = NoTask
                  /\ tasks' = [tasks EXCEPT ![t] = Idle]
                  /\ last' = [ op |-> op ]
    /\ UNCHANGED <<now, ragVars, convVars, cacheVars>>

\* The body of a method, run by the task that has taken the lock, up to the
\* end of the method or to the next "with self.lock".
\*   process_context: its first statement calls _cleanup_expired_sessions,
\*     which starts with "with self.lock" (line 26) while the task still
\*     holds the lock taken at line 40.
\*   _cleanup_expired_sessions: drops the expired sessions, releases the
\*     lock and returns to process_context, which goes on to lines 44-58.
mem_locked(t) ==
    /\ tasks[t].pc = "locked"
    /\ lock = t
    /\ LET op   == tasks[t].op
           code == tasks[t].access_code
       IN  CASE op = "process_context" ->
                  /\ tasks' = [tasks EXCEPT ![t].pc = "acquire",
                                            ![t].op = "_cleanup_expired_sessions"]
                  /\ UNCHANGED <<last, memVars>>
             [] op = "_cleanup_expired_sessions" ->
                  /\ session_contexts' = Touched(Unexpired(session_contexts), code)
                  /\ lock' = NoTask
                  /\ tasks' = [tasks EXCEPT ![t] = Idle]
                  /\ last' = [ op |-> "process_context", access_code |-> code,
                               ret |-> _generate_content_hash(
                                         json_dumps_sort_keys(tasks[t].context_data)) ]
             [] op = "get_session_contexts" ->
                  /\ session_contexts' =
                        IF code \in DOMAIN session_contexts
                        THEN Touched(session_contexts, code) ELSE session_contexts
                  /\ lock' = NoTask
                  /\ tasks' = [tasks EXCEPT ![t] = Idle]
                  /\ last' = [ op |-> op, access_code |-> code, ret |-> <<>> ]
             [] op = "clear_session" ->
                  /\ session_contexts' = Removed(session_contexts, code)
                  /\ lock' = NoTask
                  /\ tasks' = [tasks EXCEPT ![t] = Idle]
                  /\ last' = [ op |-> op, access_code |-> code ]
             [] op = "get_session_stats" ->
                  /\ lock' = NoTask
                  /\ tasks' = [tasks EXCEPT ![t] = Idle]
                  /\ last' = [ op |-> op, access_code |-> code,
                               context_count |-> context_count(session_contexts, code),
                               session_active |-> code \in DOMAIN session_contexts ]
                  /\ UNCHANGED session_contexts
             [] op = "cleanup_all_sessions" ->
                  /\ session_contexts' = <<>>
                  /\ lock' = NoTask
                  /\ tasks' = [tasks EXCEPT ![t] = Idle]
                  /\ last' = [ op |-> op ]
    /\ UNCHANGED <<now, ragVars, convVars, cacheVars>>

\* MemoryOnlyContext(): no sessions, the lock free.
InitMem == now = 0 /\ last = NoCall /\ IdleRag /\ IdleConv /\ IdleCache
    /\ IdleTasks /\ IdleMem

NextMem ==
    \/ Tick(MemMaxTime)
    \/ \E t \in Tasks, op \in MemOps, a \in Owners :
          mem_call(t, op, a, PayloadAB)
    \/ \E t \in Tasks : mem_acquire(t)
    \/ \E t \in Tasks : mem_locked(t)

SpecMem == InitMem /\ [][NextMem]_vars


\* ----------------------------------------------------------------------
\* Claims about the Context Store (checked under SpecRag)
\* ----------------------------------------------------------------------

\* C1: storing the same canonical content twice in a row for the same owner
\* (nothing but the passing of time in between) returns the same non-null id
\* both times, and the owner's row count after the second call equals the
\* count after the first.
C1_IdempotentRestore ==
    (last.op = "store" /\ last.again) =>
        /\ last.ret # NoId
        /\ last.ret = last.ret1
        /\ last.cnt = last.cnt1

\* C1 witness: a second store of the same content has completed, for an owner
\* who holds rows.
C1_Witness ==
    /\ last.op = "store" /\ last.again
    /\ last.cnt >= 1
    /\ \E r \in contexts : r.id = last.ret /\ r.access_code = last.access_code

\* C2: after any store_context call returns, the table holds at most
\* max_total_contexts rows over all owners.
C2_GlobalCap ==
    last.op = "store" => Cardinality(contexts) <= max_total_contexts

\* C3: after any store_context(owner, ...) call returns, that owner has at
\* most max_contexts_per_user rows.
C3_PerOwnerCap ==
    last.op = "store" =>
        Cardinality(OwnerRows(contexts, last.access_code)) <= max_contexts_per_user


\* ----------------------------------------------------------------------
\* Claims about the Conversation Store (checked under SpecConv, SpecHist)
\* ----------------------------------------------------------------------

\* C4: after start_conversation(owner) returns, the owner has at most
\* max_conversations_per_user active conversations; every conversation the
\* call evicted is one of the owner's, is no younger (by last_updated) than
\* any conversation of the owner left active, has no message rows, and its
\* record still exists with is_active = FALSE.
C4_SessionCap ==
    last.op = "start" =>
        /\ Cardinality(ActiveConvs(conversations, last.access_code))
               <= max_conversations_per_user
        /\ \A e \in last.evicted :
              /\ e \in DOMAIN conversations
              /\ conversations[e].access_code = last.access_code
              /\ ~conversations[e].is_active
              /\ ConvMessages(messages, e) = {}
              /\ \A c \in ActiveConvs(conversations, last.access_code) :
                    conversations[e].last_updated <= conversations[c].last_updated

\* C4 witness: a start has evicted a conversation that held a message, and
\* the owner is left with a full set of active conversations.
C4_Witness ==
    /\ last.op = "start" /\ last.ret # NoConv
    /\ \E e \in last.evicted : conversations[e].message_count > 0
    /\ Cardinality(ActiveConvs(conversations, last.access_code))
           = max_conversations_per_user

\* C5: in every reachable state each conversation record's message_count
\* equals the number of message rows stored for that conversation.
C5_MessageCount ==
    \A c \in DOMAIN conversations :
        conversations[c].message_count = Cardinality(ConvMessages(messages, c))

\* C6: add_message on a conversation id that does not exist returns false and
\* inserts nothing; on an existing conversation it appends exactly one message
\* row, increments message_count by one, bumps last_updated and returns true.
C6_AddMessage ==
    [][ \A c \in ConvIds \cup {UnknownId} :
          add_message(c, "user") =>
            IF c \notin DOMAIN conversations
            THEN /\ last'.ret = FALSE
                 /\ messages' = messages
                 /\ conversations' = conversations
            ELSE /\ last'.ret = TRUE
                 /\ messages \subseteq messages'
                 /\ Cardinality(messages' \ messages) = 1
                 /\ conversations'[c].message_count
                        = conversations[c].message_count + 1
                 /\ conversations'[c].last_updated = now ]_vars

\* The messages of S in the order in which they were appended.
AppendOrder(S) ==
    CHOOSE q \in SeqsOf(S) : \A i, j \in 1..Len(q) : i < j => q[i].id < q[j].id

\* The k messages of S appended last.
AppendedLast(S, k) == { m \in S : Cardinality({ x \in S : x.id > m.id }) < k }

\* C7: get_conversation_history(id, limit) returns the min(limit, n) most
\* recently appended messages of the conversation, in the order in which they
\* were appended, whatever the clock read when they were appended.
C7_HistoryOrder ==
    last.op = "history" =>
        LET mine == ConvMessages(messages, last.conversation_id)
            k    == Min(last.max_messages, Cardinality(mine))
        IN  last.ret = AppendOrder(AppendedLast(mine, k))

\* ----------------------------------------------------------------------
\* Claims about the Response Cache (checked under SpecCache)
\* ----------------------------------------------------------------------

\* similarity >= 0.8 and similarity = 1.0, for a fraction <<n, d>>
AtLeastThreshold(sim) == 5 * sim[1] >= 4 * sim[2]
IsOne(sim) == sim[1] = sim[2]

\* The entries stored under the key that get(prompt, context_data) looks up.
LookedUp(prompt, context_data) ==
    { e \in Elems(cache) : e.key = get_cache_key(prompt, context_data) }

\* C8: get(prompt, snapshot) returns none whenever the prompt is not
\* cacheable; when it returns a response, that response is the one of the
\* entry stored under the key of (prompt, snapshot), the entry is younger
\* than ttl at the time of the call and its fingerprint has similarity at
\* least 0.8 with the fingerprint of the snapshot.
C8_Gating ==
    last.op = "get" =>
        /\ ~is_cacheable_question(last.prompt) => last.ret = Miss
        /\ last.ret.hit =>
              \E e \in LookedUp(last.prompt, last.context_data) :
                 /\ last.ret.response = e.response
                 /\ last.at - e.timestamp < cache_ttl
                 /\ AtLeastThreshold(_check_context_similarity(
                        e.context_fingerprint,
                        get_context_fingerprint(last.context_data)))

\* C8 witness: get was called with a prompt that is not cacheable while the
\* entry under its key was fresh and fully similar, and returned none.
C8_Witness ==
    /\ last.op = "get" /\ ~is_cacheable_question(last.prompt)
    /\ last.ret = Miss
    /\ \E e \in LookedUp(last.prompt, last.context_data) :
          /\ last.at - e.timestamp < cache_ttl
          /\ IsOne(_check_context_similarity(
                 e.context_fingerprint,
                 get_context_fingerprint(last.context_data)))

C10_OnlyCacheable ==
    [][ /\ (last'.op = "set" /\ ~is_cacheable_question(last'.prompt))
              => cache' = cache
        /\ \A e \in Elems(cache') \ Elems(cache) :
              /\ last'.op = "set"
              /\ is_cacheable_question(last'.prompt)
              /\ e.prompt = LowerStrip(last'.prompt) ]_vars

\* C10 witness: a set with a prompt that is not cacheable has returned while
\* the cache holds the entry of a prompt with the same normalized text.
C10_Witness ==
    /\ last.op = "set" /\ ~is_cacheable_question(last.prompt)
    /\ \E e \in Elems(cache) : e.prompt = LowerStrip(last.prompt)

\* C11: after a set call returns the map holds at most max_cache_size
\* entries. When the call removed entries, it removed every entry that was
\* past ttl; the entries it removed that were not past ttl were written no
\* later than every entry that is left, and they were removed only as far as
\* the budget required (the map is then exactly full).
C11_Capacity ==
    [][ last'.op = "set" =>
          LET removed == { e \in Elems(cache) :
                             \A x \in Elems(cache') : x.key # e.key }
              expired == { e \in Elems(cache) : now - e.timestamp > cache_ttl }
              evicted == removed \ expired
          IN  /\ Len(cache') <= max_cache_size
              /\ removed # {} => expired \subseteq removed
              /\ \A e \in evicted, x \in Elems(cache') :
                    e.timestamp <= x.timestamp
              /\ evicted # {} => Len(cache') = max_cache_size ]_vars

\* C11 witness: a set has returned that removed an entry and left the map
\* full.
C11_Witness ==
    /\ last.op = "set" /\ last.removed > 0
    /\ Len(cache) = max_cache_size

\* C12: get, set and clear called concurrently from several tasks behave as
\* critical sections under one lock; in particular, once all calls have
\* returned, the map holds at most max_cache_size entries.
C12_ConcurrentCapacity ==
    (\A t \in Tasks : tasks[t].pc = "idle") => Len(cache) <= max_cache_size

\* C13: store_context is one transaction: between its duplicate check, its
\* capacity enforcement and its insert no write of another task takes
\* effect, so a task inside store_context finds the table as its own last
\* step left it.
C13_StoreAtomic ==
    \A t \in Tasks :
        tasks[t].pc \in {"enforce", "insert"} => contexts = tasks[t].seen

\* ----------------------------------------------------------------------
\* Claims about the sessions of MemoryOnlyContext (checked under SpecMem)
\* ----------------------------------------------------------------------

\* C14: process_context always terminates: a task never waits for a lock
\* that it holds itself (the cleanup of expired sessions inside
\* process_context does not block on the lock process_context has taken).
C14_NoSelfBlock ==
    \A t \in Tasks : ~(tasks[t].pc = "acquire" /\ lock = t)

\* ----------------------------------------------------------------------
\* Claims about the classifier and the similarity (SpecClassify, SpecSim)
\* ----------------------------------------------------------------------
MatchesDeny(prompt) ==
    \E i \in 1..Len(non_cacheable_patterns) :
        re_search(non_cacheable_patterns[i], Lower(prompt))
MatchesAllow(prompt) ==
    \E i \in 1..Len(cacheable_patterns) :
        re_search(cacheable_patterns[i], Lower(prompt))

\* C15: is_cacheable_question(prompt) is false for a prompt that matches a
\* deny pattern, also when it matches an allow pattern; true for a prompt
\* that matches no deny pattern and an allow pattern; false for a prompt that
\* matches neither. "how to plot a histogram" is cacheable, "why is this
\* error happening" and "how to fix this error" are not.
C15_Classifier ==
    last.op = "is_cacheable_question" =>
        /\ MatchesDeny(last.prompt) => last.ret = FALSE
        /\ (~MatchesDeny(last.prompt) /\ MatchesAllow(last.prompt))
              => last.ret = TRUE
        /\ (~MatchesDeny(last.prompt) /\ ~MatchesAllow(last.prompt))
              => last.ret = FALSE
        /\ last.prompt = PlotHistogram => last.ret = TRUE
        /\ last.prompt \in {WhyError, FixError} => last.ret = FALSE

\* C15 witness: a prompt that matches a deny pattern and an allow pattern has
\* been classified.
C15_Witness ==
    /\ last.op = "is_cacheable_question"
    /\ MatchesDeny(last.prompt) /\ MatchesAllow(last.prompt)
    /\ last.ret = FALSE

\* The three fields of two JSON fingerprints are identical / pairwise
\* disjoint.
SameFields(a, b) ==
    /\ a.workspace_keys = b.workspace_keys
    /\ a.recent_commands = b.recent_commands
    /\ a.active_packages = b.active_packages
DisjointFields(a, b) ==
    /\ a.workspace_keys \cap b.workspace_keys = {}
    /\ Elems(a.recent_commands) \cap Elems(b.recent_commands) = {}
    /\ Elems(a.active_packages) \cap Elems(b.active_packages) = {}

\* C16: for every pair of fingerprints whose workspace_keys, recent_commands
\* and active_packages are identical the similarity is 1.0; for every other
\* pair whose values are disjoint in all three fields it is 0.0.
C16_Similarity ==
    (last.op = "_check_context_similarity" /\ last.a.json /\ last.b.json) =>
        /\ SameFields(last.a, last.b) => last.ret[1] = last.ret[2]
        /\ (~SameFields(last.a, last.b) /\ DisjointFields(last.a, last.b))
              => last.ret[1] = 0

\* ----------------------------------------------------------------------
\* Claims about the sweeps and the life of a conversation
\* ----------------------------------------------------------------------

\* C17: the age sweep of the conversation store removes every conversation
\* whose last_updated is older than max_conversation_age together with its
\* message rows, and leaves the younger conversations and their messages as
\* they were.
C17_ConvSweep ==
    [][ conv_cleanup_old_data =>
          \A c \in DOMAIN conversations :
             IF conversations[c].last_updated < now - max_conversation_age
             THEN /\ c \notin DOMAIN conversations'
                  /\ ConvMessages(messages', c) = {}
             ELSE /\ c \in DOMAIN conversations'
                  /\ conversations'[c] = conversations[c]
                  /\ ConvMessages(messages', c) = ConvMessages(messages, c) ]_vars

LifecycleStep(c) ==
    /\ (c \in DOMAIN conversations /\ c \in DOMAIN conversations') =>
          /\ ~conversations[c].is_active => ~conversations'[c].is_active
          /\ (conversations[c].is_active /\ ~conversations'[c].is_active) =>
                /\ last'.op = "start" /\ c \in last'.evicted
                /\ last'.access_code = conversations[c].access_code
                /\ Cardinality(ActiveConvs(conversations, last'.access_code))
                      >= max_conversations_per_user
    /\ (c \in DOMAIN conversations /\ c \notin DOMAIN conversations') =>
          last'.op \in {"delete", "sweep"}

\* C19: a conversation's lifecycle is active -> evicted -> gone with the
\* shortcut active -> gone: an evicted conversation never becomes active
\* again, the only transitions are eviction by the per-owner cap and hard
\* deletion by delete_conversation or the age sweep, and a conversation that
\* is gone never reappears (here: the conversation a delete_conversation has
\* just removed is not stored again by the step that follows).
C19_Lifecycle ==
    [][ /\ \A c \in ConvIds : LifecycleStep(c)
        /\ (last.op = "delete" /\ last.conversation_id \notin DOMAIN conversations)
              => last.conversation_id \notin DOMAIN conversations' ]_vars

\* C20: clear_conversation on an existing conversation deletes all message
\* rows of that conversation and sets its message_count to 0; it leaves its
\* title, its owner, its active flag and the row itself in place, and changes
\* no other conversation's record or messages.
C20_Clear ==
    [][ \A c \in DOMAIN conversations :
          (last'.op = "clear" /\ clear_conversation(c)) =>
             /\ ConvMessages(messages', c) = {}
             /\ DOMAIN conversations' = DOMAIN conversations
             /\ conversations'[c].message_count = 0
             /\ conversations'[c].title = conversations[c].title
             /\ conversations'[c].access_code = conversations[c].access_code
             /\ conversations'[c].is_active = conversations[c].is_active
             /\ \A d \in DOMAIN conversations \ {c} :
                   conversations'[d] = conversations[d]
             /\ \A m \in messages :
                   m.conversation_id # c => m \in messages'
             /\ messages' \subseteq messages ]_vars

\* C20 witness: a clear has removed the message of a conversation that is
\* stored, beside another conversation.
C20_Witness ==
    /\ last.op = "clear" /\ last.deleted > 0
    /\ \E c \in DOMAIN conversations :
          conversations[c].message_count = 0 /\ conversations[c].last_updated = now
    /\ Cardinality(DOMAIN conversations) > 1

\* What delete_conversation(c) leaves behind: no record and no message row
\* of c, every other record and message as it was, and no error.
DeleteEffect(c) ==
    /\ c \notin DOMAIN conversations'
    /\ ConvMessages(messages', c) = {}
    /\ \A d \in DOMAIN conversations \ {c} :
          d \in DOMAIN conversations' /\ conversations'[d] = conversations[d]
    /\ DOMAIN conversations' \subseteq DOMAIN conversations
    /\ messages' = { m \in messages : m.conversation_id # c }
    /\ last'.ret = TRUE

\* Deleting an id that has no record changes nothing.
DeleteGoneIsNoOp(c) ==
    c \notin DOMAIN conversations =>
       conversations' = conversations /\ messages' = messages

\* C21: after delete_conversation(c) neither the record of c nor a message
\* row of c exists, all other conversations and their messages are
\* unchanged, and deleting an id that is already gone is a no-op that
\* reports no error.
C21_Delete ==
    [][ \A c \in PresentedIds :
          (last'.op = "delete" /\ delete_conversation(c)) =>
             DeleteEffect(c) /\ DeleteGoneIsNoOp(c) ]_vars

\* C22: eviction races are tolerated: when a capacity eviction has selected
\* an entry for deletion and a concurrent operation removes it first, the
\* planned delete is a no-op and the call completes without raising; no call
\* of a task ends with an exception.
C22_RacesTolerated ==
    \A t \in Tasks : "raised" \notin DOMAIN tasks[t]

\* C23: in every cache state, with or without entries, get_cache_stats
\* completes without raising, returns total_entries equal to the number of
\* entries, expired_entries equal to the number of entries past the ttl,
\* valid_entries as their difference and a size, and does not modify the
\* cache.
C23_Stats ==
    [][ get_cache_stats =>
          /\ "raised" \notin DOMAIN last'
          /\ last'.ret.total_entries = Len(cache)
          /\ last'.ret.expired_entries =
                Cardinality({ i \in 1..Len(cache) : now - cache[i].timestamp > cache_ttl })
          /\ last'.ret.valid_entries =
                last'.ret.total_entries - last'.ret.expired_entries
          /\ "cache_size_mb" \in DOMAIN last'.ret
          /\ cache' = cache ]_vars

\* The arguments the validation rejects: a missing or empty owner, missing
\* or empty content.
InvalidOwner(access_code) == access_code \in {NoOwner, EmptyOwner}
InvalidContent(context_data) == context_data \in {NoContent, EmptyContent}

\* C24: validation errors are returned as values and change nothing:
\* store_context with a missing or empty owner, or with missing or empty
\* content, returns None and leaves the table as it was; start_conversation
\* with a missing or empty owner returns None and creates no conversation.
C24_Validation ==
    [][ /\ \A a \in PresentedOwners, p \in PresentedPayloads :
              ((InvalidOwner(a) \/ InvalidContent(p)) /\ store_context_presented(a, p))
                 => (last'.ret = NoId /\ contexts' = contexts)
        /\ \A a \in PresentedOwners :
              (InvalidOwner(a) /\ start_conversation_presented(a))
                 => (last'.ret = NoConv /\ conversations' = conversations) ]_vars

\* The rows of the table that were returned by the retrieve just completed.
Retrieved == IF last.op = "retrieve" THEN last.ret ELSE {}

\* C25: a row's timestamp is bumped to the current time when identical
\* content is stored again and when the row is returned by retrieve, so a
\* row just retrieved is not older than rows neither re-stored nor retrieved.
C25_Bump ==
    [][ /\ \A a \in Owners, p \in RetrievePayloads :
              store_context_existing(a, p) =>
                 \A r \in contexts' :
                    r.content_hash = _generate_content_hash(json_dumps_sort_keys(p))
                       => r.timestamp = now
        /\ \A a \in Owners, q \in Queries, n \in 0..MaxLimit :
              retrieve_relevant_context(a, q, n) =>
                 \A r \in last'.ret :
                    \E r2 \in contexts' : r2.id = r.id /\ r2.timestamp = now ]_vars

\* C27: retrieve_relevant_context(owner, query, limit) returns at most limit
\* results, and every returned result is a row owned by owner: a row stored
\* by another owner is never returned, whatever the query.
C27_OwnerIsolation ==
    last.op = "retrieve" =>
       /\ Cardinality(last.ret) <= last.n_results
       /\ \A r \in last.ret : r.access_code = last.access_code

\* C27 witness: a retrieve has returned rows while a row of another owner
\* matched the query too, and the limit has cut the owner's matching rows.
C27_Witness ==
    /\ last.op = "retrieve" /\ last.ret # {}
    /\ \E r \in contexts :
          r.access_code # last.access_code /\ Fold[last.query] \in RowTokens(r)
    /\ Cardinality(MatchingRows(contexts, last.access_code, last.query))
          > last.n_results

C28_PureRead ==
    [][ (last'.op = "get" /\ last' # last) =>
           /\ cache' = cache
           /\ last'.ret = Miss \/ last'.ret.hit ]_vars

\* C28 witness: a get has just missed on an entry that is in the cache and
\* no longer valid, and the entry is still there.
C28_Witness ==
    /\ last.op = "get" /\ last.at = now
    /\ is_cacheable_question(last.prompt) /\ last.ret = Miss
    /\ \E e \in LookedUp(last.prompt, last.context_data) : ~IsValidAt(e, now)

\* Two payloads are structurally equal: the same keys, and under each key
\* equal numbers or structurally equal dicts, whatever the order of the keys.
RECURSIVE StructurallyEqual(_, _)
StructurallyEqual(p, q) ==
    /\ Len(p) = Len(q)
    /\ \A i \in 1..Len(p) : \E j \in 1..Len(q) :
          /\ p[i][1] = q[j][1]
          /\ p[i][2][1] = q[j][2][1]
          /\ IF p[i][2][1] = "dict"
             THEN StructurallyEqual(p[i][2][2], q[j][2][2])
             ELSE p[i][2][2] = q[j][2][2]

\* C29: two payloads that are structurally equal but whose keys were
\* inserted in different orders, at any nesting level, get the same
\* content_hash, and the duplicate check of store_context finds the row of
\* the first when the second is stored.
C29_KeyOrder ==
    (last.op = "content_hash" /\ StructurallyEqual(last.first, last.second)) =>
        /\ last.hash1 = last.hash2
        /\ last.existing

\* C29 witness: the hashes of two payloads have been computed that are
\* structurally equal and differ in the order of their keys at both levels.
C29_Witness ==
    /\ last.op = "content_hash"
    /\ StructurallyEqual(last.first, last.second)
    /\ Len(last.first) = 2 /\ last.first[1][1] # last.second[1][1]
    /\ \E i, j \in 1..2 :
          /\ last.first[i][2][1] = "dict" /\ last.second[j][2][1] = "dict"
          /\ last.first[i][2][2] # last.second[j][2][2]
    /\ last.existing

\* The label lines of a text, in order.
LabelLines(text) == SelectSeq(text, LAMBDA l : l.kind = "label")

\* The first line of a text that is not blank is the header, verbatim.
StartsWithHeader(text) ==
    \E k \in 1..Len(text) :
       /\ text[k] = HeaderLine
       /\ \A j \in 1..(k - 1) : text[j] = BlankLine

\* C30: format_conversation_context renders exactly the messages that
\* get_conversation_history returns for the same id and limit, oldest first:
\* the block starts with the header line "=== CONVERSATION HISTORY ===",
\* followed by one label line per message naming its role and numbered 1, 2,
\* ... in that order; for no messages or an unknown id the text is empty.
C30_Format ==
    last.op = "format" =>
       /\ \E q \in SelectRecent(messages, last.conversation_id, last.max_messages) :
             last.messages = Reversed(q)
       /\ IF last.messages = <<>> THEN last.ret = <<>>
          ELSE /\ StartsWithHeader(last.ret)
               /\ Len(LabelLines(last.ret)) = Len(last.messages)
               /\ \A i \in 1..Len(last.messages) :
                     /\ LabelLines(last.ret)[i].n = i
                     /\ LabelLines(last.ret)[i].text = Title(last.messages[i].role)

\* C30 witness: a text of two messages of different roles has been rendered.
C30_Witness ==
    /\ last.op = "format"
    /\ Len(last.messages) = 2
    /\ last.messages[1].role # last.messages[2].role
    /\ Len(last.ret) > 3

\* ----------------------------------------------------------------------
\* Claims about the similarity, the sweeps' liveness and concurrent stores
\* ----------------------------------------------------------------------

\* The three feature sets of a fingerprint (none in the text "empty").
FeatureSets(fp) ==
    << fp.workspace_keys, Elems(fp.recent_commands), Elems(fp.active_packages) >>

\* The features that are non-empty on at least one side.
PresentFeatures(a, b) ==
    { i \in 1..3 : FeatureSets(a)[i] \cup FeatureSets(b)[i] # {} }

\* sim, a fraction <<n, d>>, is the arithmetic mean of the Jaccard indices
\* |A \cap B| / |A \cup B| of the present features: the equation
\* |P| * n / d = sum of the indices, multiplied through by d and by the
\* product of the unions' sizes.
IsJaccardMean(sim, a, b) ==
    LET P == PresentFeatures(a, b)
        I(i) == Cardinality(FeatureSets(a)[i] \cap FeatureSets(b)[i])
        U(i) == IF i \in P
                THEN Cardinality(FeatureSets(a)[i] \cup FeatureSets(b)[i])
                ELSE 1
        J(i) == IF i \in P THEN I(i) * ((U(1) * U(2) * U(3)) \div U(i)) ELSE 0
    IN  Cardinality(P) * sim[1] * U(1) * U(2) * U(3)
            = sim[2] * (J(1) + J(2) + J(3))

\* C31: the similarity of two fingerprints is the arithmetic mean of the
\* Jaccard indices of the features (workspace_keys, recent_commands,
\* active_packages) that are non-empty on at least one side; it is 0.0 when
\* no feature is present on either side; it lies in [0, 1] and is the same
\* with the two arguments exchanged.
C31_JaccardMean ==
    last.op = "_check_context_similarity" =>
        /\ last.ret[2] > 0
        /\ 0 <= last.ret[1] /\ last.ret[1] <= last.ret[2]
        /\ PresentFeatures(last.a, last.b) = {} => last.ret[1] = 0
        /\ PresentFeatures(last.a, last.b) # {}
              => IsJaccardMean(last.ret, last.a, last.b)
        /\ LET rev == _check_context_similarity(last.b, last.a)
           IN  rev[1] * last.ret[2] = last.ret[1] * rev[2]

\* Two of the three features are present, one shared in part: the mean is
\* strictly between 0 and 1.
C31_Witness ==
    /\ last.op = "_check_context_similarity"
    /\ last.a # last.b
    /\ Cardinality(PresentFeatures(last.a, last.b)) = 2
    /\ 0 < last.ret[1] /\ last.ret[1] < last.ret[2]
    /\ 2 * last.ret[1] # last.ret[2]

\* last_updated of conversation c is older than max_conversation_age.
IsOldConversation(c) ==
    /\ c \in DOMAIN conversations
    /\ conversations[c].last_updated < now - max_conversation_age

\* C32: while the instance keeps serving requests, a conversation whose
\* last_updated has become older than max_conversation_age is eventually
\* hard-deleted (or updated again, which makes it young).
C32_SweepLiveness ==
    \A c \in ConvIds : IsOldConversation(c) ~> ~IsOldConversation(c)

\* C33: when tasks call store_context concurrently with the same canonical
\* content, no call fails: every call that returns returns a non-null id,
\* the id of the one row that holds that content_hash (so concurrent calls
\* with the same content return the same id).
C33_ConcurrentDedup ==
    [][ \A t \in Tasks :
          ( \/ conc_store_insert(t)
            \/ /\ last'.op = "store" /\ last' # last /\ last'.task = t )
          => /\ last'.ret # NoId
             /\ \E r \in contexts' :
                   /\ r.id = last'.ret
                   /\ ExistingRows(contexts', last'.content_hash) = {r} ]_vars

\* ----------------------------------------------------------------------
\* Claims about the key, the round trip and the expiry of the Response Cache
\* ----------------------------------------------------------------------

\* Two fingerprints are the same text: equal in workspace_keys,
\* recent_commands (with their order), active_packages and document_length.
SameFingerprint(f, g) ==
    /\ f.json = g.json
    /\ f.workspace_keys = g.workspace_keys
    /\ f.recent_commands = g.recent_commands
    /\ f.active_packages = g.active_packages
    /\ f.document_length = g.document_length

\* The entries written for the normalized prompt of the last get.
SamePrompt ==
    { e \in Elems(cache) : e.prompt = LowerStrip(last.prompt) }

\* C34: every hit of get comes from an entry whose stored fingerprint equals
\* the read-time fingerprint in all four fields, and reports a
\* context_similarity of exactly 1.0; when no entry of the prompt has the
\* read-time fingerprint (it differs in some field, be it document_length
\* alone), get misses.
C34_KeyEmbedsFingerprint ==
    last.op = "get" =>
        LET current == get_context_fingerprint(last.context_data)
            same    == { e \in SamePrompt :
                           SameFingerprint(e.context_fingerprint, current) }
        IN  /\ last.ret.hit =>
                  /\ IsOne(last.ret.context_similarity)
                  /\ \E e \in same : e.response = last.ret.response
            /\ same = {} => last.ret = Miss

\* The prompt is looked up while a fresh entry of the same prompt is stored
\* whose fingerprint differs from the read-time one in document_length
\* alone: a miss.
C34_Witness ==
    /\ last.op = "get" /\ is_cacheable_question(last.prompt)
    /\ last.ret = Miss
    /\ LET current == get_context_fingerprint(last.context_data)
       IN  \E e \in SamePrompt :
              /\ IsValidAt(e, now)
              /\ e.context_fingerprint.document_length # current.document_length
              /\ SameFingerprint(
                     [e.context_fingerprint EXCEPT !.document_length =
                                                      current.document_length],
                     current)

\* C35: a get of a cacheable prompt with the snapshot an entry was set with,
\* made before ttl has elapsed since the set, returns the response that was
\* set, whatever the snapshot (none, empty, or one without workspace
\* objects, commands and packages).
C35_RoundTrip ==
    (last.op = "get" /\ is_cacheable_question(last.prompt)) =>
        \A e \in LookedUp(last.prompt, last.context_data) :
            last.at - e.timestamp < cache_ttl
                => last.ret.hit /\ last.ret.response = e.response

\* ----------------------------------------------------------------------
\* Claims about evicted conversations, the ids of start_conversation and
\* the owner of a stored row
\* ----------------------------------------------------------------------

\* C36: a conversation that was evicted (is_active = 0) has no message rows:
\* no add_message after the eviction attaches a message to it.
C36_EvictedHasNoMessages ==
    \A c \in DOMAIN conversations :
        ~conversations[c].is_active => ConvMessages(messages, c) = {}

\* C37: the conversation whose id start_conversation returns is active when
\* the call returns, whatever other tasks' add_message and start_conversation
\* calls do in between and whatever the ties in last_updated.
C37_StartedIsActive ==
    [][ \A t \in Tasks :
          conc_start_enforce(t)
              => conversations'[tasks[t].conversation_id].is_active ]_vars

\* C38: whenever store_context(owner, content) returns an id, the row with
\* that id belongs to owner, also when another owner has stored the same
\* content before.
C38_ReturnedRowIsOwners ==
    (last.op = "store" /\ last.ret # NoId) =>
        \E r \in contexts : r.id = last.ret /\ r.access_code = last.access_code

\* C39: every start_conversation(owner) call for a valid owner creates a new
\* active conversation and returns its id, which is the id of no
\* conversation stored before the call, also when the call is made at the
\* clock reading of an earlier call for the same owner.
C39_StartAlwaysCreates ==
    [][ \A a \in Owners :
          (last'.op = "start" /\ start_conversation(a, NoTitle))
              => /\ last'.ret # NoConv
                 /\ last'.ret \notin DOMAIN conversations
                 /\ last'.ret \in DOMAIN conversations'
                 /\ conversations'[last'.ret].is_active ]_vars

\* C40: get, get_cache_stats and the ttl pass of _cleanup_old_entries agree
\* on which entries are expired: a get that finds the entry of its key with
\* a similar enough fingerprint refuses it exactly when the statistics count
\* the entry as expired and the sweep would drop it, also at the age of
\* exactly ttl.
C40_OneExpiry ==
    (last.op = "get" /\ is_cacheable_question(last.prompt)) =>
        \A e \in LookedUp(last.prompt, last.context_data) :
            AboveThreshold(_check_context_similarity(
                e.context_fingerprint,
                get_context_fingerprint(last.context_data)))
            => ((last.ret = Miss) <=> IsOldAt(e, last.at))

====
